---- MODULE Spec2Model ----
(***************************************************************************)
(* A model of the pawketeer capture-analysis backend: the 802.11 frame     *)
(* decoder and classifier, the statistics pass, the traffic profiler, the  *)
(* analyzer selection and the five specialized analyzers.                  *)
(*                                                                         *)
(* Python values are modelled as follows.                                  *)
(*   bytes / str   a sequence of byte values (code points); None of a      *)
(*                 str-valued variable is NoneStr                          *)
(*   MAC address   a string; None is the string "None"                    *)
(*   scapy packet  a record: the layers it holds (haslayer), the Dot11     *)
(*                 header fields, the Dot11Elt chain and the WPA_key       *)
(*                 fields; the result None of the decoder is NonePkt       *)
(*   an exception  escaping a constructor is the value Raised              *)
(***************************************************************************)
EXTENDS Integers, Sequences, FiniteSets, TLC

\* ------------------------------------------------------------------ bounds
\* Longest frame stream fed to the statistics pass.
MaxStatsFrames == 3
\* Longest frame streams fed to the analyzers.
MaxDeauthFrames == 4
MaxEvilTwinFrames == 4
MaxProbeFrames == 5
MaxDetFrames == 3
MaxWeakFrames == 4
MaxHandshakeFrames == 4
MaxApFrames == 4
\* Longest information-element chain of a beacon.
MaxElts == 3
MaxPnlFrames == 5
\* Largest key_info value whose message number is inferred (bits 0 to 9).
MaxKeyInfo == 1023
\* Largest capture (total_packets) whose frame mix is profiled exhaustively.
MaxTotal == 20
\* Longest capture read by a whole run.
MaxCapture == 3
\* Longest suggestion list handed to the analyzer selection.
MaxSuggestions == 4
\* Most request_otp calls for the email.
MaxOtpCalls == 8
\* The clock of the Redis server stops here (minutes).
MaxOtpClock == 120
\* Minutes between two readings of the clock of the Redis server.
TickMinutes == 30
\* Most start_analysis requests for the capture.
MaxRequests == 2
\* Longest capture file the job layer analyzes.
MaxJobLen == 1
\* Longest capture of each of two runs in a row.
MaxRunLen == 2
\* Most sub-layers one classified packet holds below its Dot11 header.
MaxLayers == 2
\* Constructor arguments of the DeauthDisassoc instance under check.
burst_window_s == 2
burst_threshold == 3

\* ------------------------------------------------------------- primitives
None == "None"
NoneStr == <<-1>>
\* None of an int-valued variable (channel, message number, replay counter).
NoneInt == -1
NonePkt == [kind |-> "None"]
\* None of a dict-valued column (details).
NoneDict == [kind |-> "None"]
Raised == [kind |-> "Raised"]
NoKey == [present |-> FALSE]

Range(s) == {s[i] : i \in 1..Len(s)}

RECURSIVE SumSet(_, _)
SumSet(f, S) ==
  IF S = {} THEN 0
  ELSE LET x == CHOOSE y \in S : TRUE IN f[x] + SumSet(f, S \ {x})

\* dict.get(key, default)
Get(d, k, default) == IF k \in DOMAIN d THEN d[k] ELSE default

\* Counter[key] += 1
Incr(d, k) ==
  [x \in DOMAIN d \cup {k} |-> IF x = k THEN Get(d, k, 0) + 1 ELSE d[x]]

\* str.lower() on the MAC addresses of the model: "AA:01" is the one address
\* written in upper case.
Lower(a) == IF a = "AA:01" THEN "aa:01" ELSE a

\* Python truthiness of an address attribute (None and "" are falsy).
Truthy(a) == a # None /\ a # ""

_addr_lower(x) == IF x = None THEN None ELSE Lower(x)

\* ------------------------------------------------------------ byte strings
\* ASCII printable without \t\n\r\x0b\x0c: what _ascii_printable keeps.
IsKeptPrintable(b) == b >= 32 /\ b <= 126

\* Characters str.strip() removes (code points below 256).
IsSpace(c) == c \in {9, 10, 11, 12, 13, 28, 29, 30, 31, 32, 133, 160}

\* str.isprintable() of one Latin-1 character.
IsPrintableChar(c) == (c >= 32 /\ c <= 126) \/ (c >= 161 /\ c <= 255 /\ c # 173)

RECURSIVE LStrip(_)
LStrip(s) ==
  IF s = <<>> THEN <<>>
  ELSE IF IsSpace(Head(s)) THEN LStrip(Tail(s)) ELSE s

RECURSIVE RStrip(_)
RStrip(s) ==
  IF s = <<>> THEN <<>>
  ELSE IF IsSpace(s[Len(s)]) THEN RStrip(SubSeq(s, 1, Len(s) - 1)) ELSE s

\* str.strip()
Strip(s) == RStrip(LStrip(s))

\* The byte strings of the model hold no UTF-8 continuation byte (0x80..0xBF),
\* so a byte >= 0x80 never takes part in a valid multi-byte sequence:
\* bytes.decode('utf-8') succeeds exactly on pure ASCII.
Utf8Valid(b) == \A i \in 1..Len(b) : b[i] < 128

IsAsciiByte(b) == b < 128

\* bytes.decode(errors="ignore"): the invalid bytes are dropped.
DecodeIgnore(b) == SelectSeq(b, IsAsciiByte)

_ascii_printable(b) ==
  IF Len(b) = 0 THEN NoneStr
  ELSE LET out == SelectSeq(b, IsKeptPrintable)
       IN IF out # <<>> THEN out ELSE NoneStr

\* bytes.hex(): two hexadecimal digits per byte.
RECURSIVE Hex(_)
Hex(b) ==
  IF b = <<>> THEN <<>>
  ELSE <<Head(b) \div 16, Head(b) % 16>> \o Hex(Tail(b))

\* -------------------------------------------------------------- packets
\* A packet as scapy builds it: kind is the outermost layer.
Dot11Pkt(layers, type, subtype, a1, a2, a3, elts) ==
  [kind |-> "RadioTap", layers |-> {"RadioTap", "Dot11"} \cup layers,
   type |-> type, subtype |-> subtype,
   addr1 |-> a1, addr2 |-> a2, addr3 |-> a3, addr4 |-> None,
   elts |-> elts, key |-> NoKey]

\* RadioTap header with no 802.11 frame inside.
RadioTapOnly ==
  [kind |-> "RadioTap", layers |-> {"RadioTap"},
   type |-> 0, subtype |-> 0,
   addr1 |-> None, addr2 |-> None, addr3 |-> None, addr4 |-> None,
   elts |-> <<>>, key |-> NoKey]

Elt(id, info) == [ID |-> id, info |-> info]

\* A raw frame is what each scapy constructor makes of its bytes: a packet,
\* or Raised when the constructor throws.
Raw(asRadioTap, asDot11) == [RadioTap |-> asRadioTap, Dot11 |-> asDot11]

\* The bytes of a packet captured with a radiotap header.
RawOf(pkt) == Raw(pkt, Raised)

\* The bytes of a packet captured without radiotap header: RadioTap(raw)
\* throws and Dot11(raw) parses the frame.
RawDirect(pkt) ==
  Raw(Raised, [pkt EXCEPT !.kind = "Dot11", !.layers = pkt.layers \ {"RadioTap"}])

\* Bytes neither constructor can parse.
RawGarbage == Raw(Raised, Raised)

\* ------------------------------------------------------------ agent_bus.py
safe_dot11_decode_raising(raw) ==
  IF raw.RadioTap # Raised THEN raw.RadioTap
  ELSE IF raw.Dot11 # Raised THEN raw.Dot11
  ELSE Raised

safe_dot11_decode(raw) ==
  IF raw.RadioTap # Raised THEN raw.RadioTap
  ELSE IF raw.Dot11 # Raised THEN raw.Dot11
  ELSE NonePkt

haslayer(pkt, layer) == pkt # NonePkt /\ layer \in pkt.layers

\* ------------------------------------------------------- smart_analysis.py
\* Sub-table of the classifier for frames that hold none of the layers tested
\* first: the Dot11 header's (type, subtype).
TypeSubtypeCategory(type_val, subtype_val) ==
  IF type_val = 0 THEN "mgmt_other"
  ELSE IF type_val = 1 THEN
    IF subtype_val = 11 THEN "rts"
    ELSE IF subtype_val = 12 THEN "cts"
    ELSE IF subtype_val = 13 THEN "ack"
    ELSE IF subtype_val = 10 THEN "ps_poll"
    ELSE IF subtype_val = 9 THEN "cf_end"
    ELSE IF subtype_val = 8 THEN "cf_end_ack"
    ELSE "control_other"
  ELSE IF type_val = 2 THEN
    IF subtype_val = 0 THEN "data"
    ELSE IF subtype_val = 1 THEN "data_cf_ack"
    ELSE IF subtype_val = 2 THEN "data_cf_poll"
    ELSE IF subtype_val = 3 THEN "data_cf_ack_poll"
    ELSE IF subtype_val = 4 THEN "null_data"
    ELSE IF subtype_val = 5 THEN "cf_ack"
    ELSE IF subtype_val = 6 THEN "cf_poll"
    ELSE IF subtype_val = 7 THEN "cf_ack_poll"
    ELSE "data_other"
  ELSE "reserved"

_categorize_802_11_frame_swapped(pkt) ==
  IF pkt = NonePkt THEN "non_802_11"
  ELSE IF ~haslayer(pkt, "Dot11") THEN
    IF haslayer(pkt, "RadioTap") THEN "radiotap_no_dot11" ELSE "non_802_11"
  ELSE IF haslayer(pkt, "Dot11Auth") THEN "auth"
  ELSE IF haslayer(pkt, "Dot11AssoReq") THEN "assoc_req"
  ELSE IF haslayer(pkt, "Dot11AssoResp") THEN "assoc_resp"
  ELSE IF haslayer(pkt, "Dot11ReassoReq") THEN "reassoc_req"
  ELSE IF haslayer(pkt, "Dot11ReassoResp") THEN "reassoc_resp"
  ELSE IF haslayer(pkt, "Dot11ProbeReq") THEN "probe_req"
  ELSE IF haslayer(pkt, "Dot11Beacon") THEN "beacon"
  ELSE IF haslayer(pkt, "Dot11ProbeResp") THEN "probe_resp"
  ELSE IF haslayer(pkt, "Dot11Deauth") THEN "deauth"
  ELSE IF haslayer(pkt, "Dot11Disas") THEN "disassoc"
  ELSE IF haslayer(pkt, "Dot11ATIM") THEN "atim"
  ELSE IF haslayer(pkt, "Dot11QoS") THEN "qos_data"
  ELSE TypeSubtypeCategory(pkt.type, pkt.subtype)

\* The Dot11 header always has the fields type and subtype and a tuple is
\* truthy, so the final "unknown" of the source is never returned.
_categorize_802_11_frame(pkt) ==
  IF pkt = NonePkt THEN "non_802_11"
  ELSE IF ~haslayer(pkt, "Dot11") THEN
    IF haslayer(pkt, "RadioTap") THEN "radiotap_no_dot11" ELSE "non_802_11"
  ELSE IF haslayer(pkt, "Dot11Auth") THEN "auth"
  ELSE IF haslayer(pkt, "Dot11AssoReq") THEN "assoc_req"
  ELSE IF haslayer(pkt, "Dot11AssoResp") THEN "assoc_resp"
  ELSE IF haslayer(pkt, "Dot11ReassoReq") THEN "reassoc_req"
  ELSE IF haslayer(pkt, "Dot11ReassoResp") THEN "reassoc_resp"
  ELSE IF haslayer(pkt, "Dot11Beacon") THEN "beacon"
  ELSE IF haslayer(pkt, "Dot11ProbeReq") THEN "probe_req"
  ELSE IF haslayer(pkt, "Dot11ProbeResp") THEN "probe_resp"
  ELSE IF haslayer(pkt, "Dot11Deauth") THEN "deauth"
  ELSE IF haslayer(pkt, "Dot11Disas") THEN "disassoc"
  ELSE IF haslayer(pkt, "Dot11ATIM") THEN "atim"
  ELSE IF haslayer(pkt, "Dot11QoS") THEN "qos_data"
  ELSE TypeSubtypeCategory(pkt.type, pkt.subtype)

\* One SSID element of _extract_ssids_from_packet: the name it adds, or
\* NoneStr when none of the decoding strategies yields one.  Strategy 3
\* (UTF-8 with replacement) is reached only when strict UTF-8 failed or gave
\* an empty name, and then either holds a replacement character or is empty:
\* it adds nothing.
SsidOfElement(info) ==
  IF Len(info) = 0 THEN NoneStr
  ELSE IF Utf8Valid(info) /\ Strip(info) # <<>> THEN Strip(info)
  ELSE IF Strip(info) # <<>> /\ \A i \in 1..Len(Strip(info)) : IsPrintableChar(Strip(info)[i])
       THEN Strip(info)
  ELSE NoneStr

\* The walk over the Dot11Elt chain: the first SSID element that yields a
\* name adds it and ends the walk (break).
RECURSIVE _extract_ssids_from_packet(_, _)
_extract_ssids_from_packet(elts, ssids_set) ==
  IF elts = <<>> THEN ssids_set
  ELSE IF Head(elts).ID = 0 /\ SsidOfElement(Head(elts).info) # NoneStr
       THEN ssids_set \cup {SsidOfElement(Head(elts).info)}
  ELSE _extract_ssids_from_packet(Tail(elts), ssids_set)

AddrsOf_addr2_only(pkt) ==
  {Lower(a) : a \in {x \in {pkt.addr2} : Truthy(x)}}

\* The four address fields of the Dot11 header that are set.
AddrsOf(pkt) ==
  {Lower(a) : a \in {x \in {pkt.addr1, pkt.addr2, pkt.addr3, pkt.addr4} : Truthy(x)}}

\* The state of _get_basic_stats_and_frame_mix before the first frame.
BasicStatsInit ==
  [total_packets |-> 0, devices |-> {}, aps |-> {}, clients |-> {},
   ssids |-> {}, frame_mix |-> <<>>]

\* One iteration of the loop of _get_basic_stats_and_frame_mix over a frame
\* that decoded to pkt (NonePkt when the decode failed).
BasicStatsFrame(st, pkt) ==
  LET counted == [st EXCEPT !.total_packets = @ + 1]
      frame_type == _categorize_802_11_frame(pkt)
      mixed == [counted EXCEPT !.frame_mix = Incr(@, frame_type)]
  IN IF pkt = NonePkt THEN counted
     ELSE IF frame_type \in {"non_802_11", "radiotap_no_dot11"} THEN mixed
     ELSE IF ~haslayer(pkt, "Dot11") THEN mixed
     ELSE
       LET aps1 == IF frame_type = "beacon" /\ Truthy(pkt.addr2)
                     THEN mixed.aps \cup {Lower(pkt.addr2)}
                   ELSE IF frame_type = "auth" /\ Truthy(pkt.addr1) /\ Truthy(pkt.addr2)
                     THEN mixed.aps \cup {Lower(pkt.addr1)}
                   ELSE mixed.aps
           clients1 == IF frame_type \in {"probe_req", "assoc_req"} /\ Truthy(pkt.addr2)
                         THEN mixed.clients \cup {Lower(pkt.addr2)}
                       ELSE IF frame_type = "auth" /\ Truthy(pkt.addr1) /\ Truthy(pkt.addr2)
                         THEN mixed.clients \cup {Lower(pkt.addr2)}
                       ELSE mixed.clients
           ssids1 == IF frame_type \in {"beacon", "probe_resp", "probe_req"}
                       THEN _extract_ssids_from_packet(pkt.elts, mixed.ssids)
                     ELSE mixed.ssids
       IN [mixed EXCEPT !.aps = aps1, !.clients = clients1,
                        !.devices = @ \cup AddrsOf(pkt), !.ssids = ssids1]

\* The dict _get_basic_stats_and_frame_mix returns.
BasicStatsResult(st) ==
  [total_packets |-> st.total_packets,
   unique_devices |-> Cardinality(st.devices),
   unique_aps |-> Cardinality(st.aps),
   unique_clients |-> Cardinality(st.clients),
   ssid_count |-> Cardinality(st.ssids),
   frame_mix |-> st.frame_mix]

\* ------------------------------------------------------------ analyzers.py
\* An insertion-ordered dict is a sequence of [key, val] entries.
DictHas(d, k) == \E i \in 1..Len(d) : d[i].key = k

DictGet(d, k) == (CHOOSE e \in Range(d) : e.key = k).val

\* d[k] = v: an existing key keeps its position.
DictSet(d, k, v) ==
  IF DictHas(d, k)
    THEN [i \in 1..Len(d) |-> IF d[i].key = k THEN [key |-> k, val |-> v] ELSE d[i]]
  ELSE Append(d, [key |-> k, val |-> v])

\* ---- DeauthDisassoc
DeauthDisassocInit(w, th) ==
  [deauth |-> 0, disas |-> 0, by_src |-> <<>>, win |-> w, th |-> th,
   events |-> <<>>, bursts |-> <<>>]

Expired_nonstrict(ev_ts, ts, win) == ts - ev_ts >= win

\* The eviction test: ts - self.events[0][0] > self.win
Expired(ev_ts, ts, win) == ts - ev_ts > win

Evict_once(events, ts, win) ==
  IF events # <<>> /\ Expired(Head(events).ts, ts, win) THEN Tail(events) ELSE events

\* while self.events and <expired>: self.events.popleft()
RECURSIVE Evict(_, _, _)
Evict(events, ts, win) ==
  IF events # <<>> /\ Expired(Head(events).ts, ts, win) THEN Evict(Tail(events), ts, win)
  ELSE events

CountOf(events, s) == Cardinality({i \in 1..Len(events) : events[i].src = s})

TopSource_last(events) == events[Len(events)].src

\* max(counts.items(), key=lambda kv: kv[1])[0]: the first source, in order
\* of first appearance in the queue, whose count is maximal.
TopSource(events) ==
  LET first == CHOOSE i \in 1..Len(events) :
                 /\ \A j \in 1..Len(events) :
                      CountOf(events, events[j].src) <= CountOf(events, events[i].src)
                 /\ \A j \in 1..(i - 1) :
                      CountOf(events, events[j].src) < CountOf(events, events[i].src)
  IN events[first].src

DeauthDisassoc_on_packet(d, pkt, ts) ==
  LET src == IF haslayer(pkt, "Dot11") THEN _addr_lower(pkt.addr2) ELSE None
      counted ==
        IF haslayer(pkt, "Dot11Deauth") THEN [d EXCEPT !.deauth = @ + 1]
        ELSE IF haslayer(pkt, "Dot11Disas") THEN [d EXCEPT !.disas = @ + 1]
        ELSE d
      queued ==
        IF (haslayer(pkt, "Dot11Deauth") \/ haslayer(pkt, "Dot11Disas")) /\ Truthy(src)
          THEN [counted EXCEPT
                  !.by_src = DictSet(@, src, (IF DictHas(@, src) THEN DictGet(@, src) ELSE 0) + 1),
                  !.events = Append(@, [ts |-> ts, src |-> src])]
        ELSE counted
      kept == Evict(queued.events, ts, queued.win)
  IN IF Len(kept) >= queued.th
       THEN [queued EXCEPT
               !.events = <<>>,
               !.bursts = IF kept # <<>>
                            THEN Append(@, [bssid |-> TopSource(kept), count |-> Len(kept),
                                            window_s |-> queued.win])
                          ELSE @]
     ELSE [queued EXCEPT !.events = kept]

\* sorted(items, key=count, reverse=True): stable, so equal counts keep their
\* insertion order.
RECURSIVE InsertByCount(_, _)
InsertByCount(sorted, e) ==
  IF sorted = <<>> THEN <<e>>
  ELSE IF Head(sorted).val >= e.val THEN <<Head(sorted)>> \o InsertByCount(Tail(sorted), e)
  ELSE <<e>> \o sorted

RECURSIVE SortByCountDesc(_)
SortByCountDesc(d) ==
  IF d = <<>> THEN <<>>
  ELSE InsertByCount(SortByCountDesc(SubSeq(d, 1, Len(d) - 1)), d[Len(d)])

FirstN(s, n) == SubSeq(s, 1, IF Len(s) < n THEN Len(s) ELSE n)

\* A method call is the pair of the object afterwards and the value returned.
DeauthDisassoc_finalize(d) ==
  [self |-> d,
   ret |-> [total_deauth |-> d.deauth, total_disassoc |-> d.disas,
            top_sources |-> [i \in 1..Len(FirstN(SortByCountDesc(d.by_src), 5)) |->
                               [mac |-> SortByCountDesc(d.by_src)[i].key,
                                count |-> SortByCountDesc(d.by_src)[i].val]],
            suspicious_bursts |-> d.bursts]]

\* ---- EvilTwinHeuristic
EvilTwinInit == [ssids |-> <<>>]

\* The walk over the Dot11Elt chain of EvilTwinHeuristic.on_packet: every
\* element of id 0, 3 or 48 overwrites what an earlier one set.
RECURSIVE EvilTwinWalk(_, _)
EvilTwinWalk(elts, acc) ==
  IF elts = <<>> THEN acc
  ELSE LET e == Head(elts)
           next == IF e.ID = 0 THEN [acc EXCEPT !.ssid = _ascii_printable(e.info)]
                   ELSE IF e.ID = 3 THEN
                     IF Len(e.info) >= 1 THEN [acc EXCEPT !.chan = e.info[1]] ELSE acc
                   ELSE IF e.ID = 48 THEN [acc EXCEPT !.sec = "RSN"]
                   ELSE acc
       IN EvilTwinWalk(Tail(elts), next)

EvilTwinHeuristic_on_packet_collapsing(e, pkt) ==
  IF ~(haslayer(pkt, "Dot11Beacon") \/ haslayer(pkt, "Dot11ProbeResp")) THEN e
  ELSE LET bssid == _addr_lower(pkt.addr2)
           w == EvilTwinWalk(pkt.elts, [ssid |-> NoneStr, chan |-> NoneInt, sec |-> "Open"])
           old == IF DictHas(e.ssids, w.ssid) THEN DictGet(e.ssids, w.ssid) ELSE <<>>
           new == [bssid |-> bssid, chan |-> w.chan, sec |-> w.sec]
       IN IF Truthy(bssid) /\ w.ssid # NoneStr /\ new \notin Range(old)
            THEN [e EXCEPT !.ssids = DictSet(@, w.ssid, Append(old, new))]
          ELSE e

EvilTwinHeuristic_on_packet(e, pkt) ==
  IF ~(haslayer(pkt, "Dot11Beacon") \/ haslayer(pkt, "Dot11ProbeResp")) THEN e
  ELSE LET bssid == _addr_lower(pkt.addr2)
           w == EvilTwinWalk(pkt.elts, [ssid |-> NoneStr, chan |-> NoneInt, sec |-> "Open"])
       IN IF Truthy(bssid) /\ w.ssid # NoneStr
            THEN [e EXCEPT !.ssids =
                    DictSet(@, w.ssid,
                            Append(IF DictHas(@, w.ssid) THEN DictGet(@, w.ssid) ELSE <<>>,
                                   [bssid |-> bssid, chan |-> w.chan, sec |-> w.sec]))]
          ELSE e

SecsOf(lst) == {lst[i].sec : i \in 1..Len(lst)}

ChansOf(lst) == {lst[i].chan : i \in 1..Len(lst)} \ {NoneInt}

\* The verdict of finalize on one name: the reason, or "" when the name is
\* not suspected.
EvilTwinVerdict_one_channel(lst) ==
  IF "Open" \in SecsOf(lst) /\ Cardinality(SecsOf(lst)) > 1 THEN "open+secure mismatch"
  ELSE IF Cardinality(ChansOf(lst)) >= 1 /\ Len(lst) >= 2 THEN "channel discrepancy"
  ELSE ""

EvilTwinVerdict(lst) ==
  IF "Open" \in SecsOf(lst) /\ Cardinality(SecsOf(lst)) > 1 THEN "open+secure mismatch"
  ELSE IF Cardinality(ChansOf(lst)) > 1 /\ Len(lst) >= 2 THEN "channel discrepancy"
  ELSE ""

\* The suspects list: one entry per suspected name, in dict order.
RECURSIVE Suspects(_)
Suspects(d) ==
  IF d = <<>> THEN <<>>
  ELSE LET rest == Suspects(SubSeq(d, 1, Len(d) - 1))
           last == d[Len(d)]
       IN IF EvilTwinVerdict(last.val) # ""
            THEN Append(rest, [ssid |-> last.key, reason |-> EvilTwinVerdict(last.val)])
          ELSE rest

EvilTwinHeuristic_finalize(e) ==
  [self |-> e,
   ret |-> [ssids |-> e.ssids, suspected_evil_twins |-> Suspects(e.ssids)]]

\* ---- ProbePrivacy
ProbePrivacyInit == [pnls |-> <<>>]

\* The walk over the Dot11Elt chain of ProbePrivacy.on_packet: every SSID
\* element with a non-empty printable name is added to the station's set.
RECURSIVE ProbeWalk(_, _, _)
ProbeWalk(elts, pnls, sta) ==
  IF elts = <<>> THEN pnls
  ELSE LET e == Head(elts)
           ssid == _ascii_printable(e.info)
           next == IF e.ID = 0 /\ ssid # NoneStr /\ ssid # <<>>
                     THEN DictSet(pnls, sta,
                                  (IF DictHas(pnls, sta) THEN DictGet(pnls, sta) ELSE {})
                                    \cup {ssid})
                   ELSE pnls
       IN ProbeWalk(Tail(elts), next, sta)

ProbePrivacy_on_packet_latest(p, pkt) ==
  IF ~haslayer(pkt, "Dot11ProbeReq") THEN p
  ELSE LET sta == _addr_lower(pkt.addr2)
       IN IF ~Truthy(sta) THEN p
          ELSE [p EXCEPT !.pnls = ProbeWalk(pkt.elts, DictSet(@, sta, {}), sta)]

ProbePrivacy_on_packet(p, pkt) ==
  IF ~haslayer(pkt, "Dot11ProbeReq") THEN p
  ELSE LET sta == _addr_lower(pkt.addr2)
       IN IF ~Truthy(sta) THEN p
          ELSE [p EXCEPT !.pnls = ProbeWalk(pkt.elts, @, sta)]

\* Python's order on str: lexicographic by code point.
RECURSIVE StrLess(_, _)
StrLess(a, b) ==
  IF b = <<>> THEN FALSE
  ELSE IF a = <<>> THEN TRUE
  ELSE IF Head(a) # Head(b) THEN Head(a) < Head(b)
  ELSE StrLess(Tail(a), Tail(b))

\* sorted(list(v)) of a set of names.
RECURSIVE SortedNames(_)
SortedNames(S) ==
  IF S = {} THEN <<>>
  ELSE LET m == CHOOSE x \in S : \A y \in S \ {x} : StrLess(x, y)
       IN <<m>> \o SortedNames(S \ {m})

LargePnl_gt(pnl) == Len(pnl) > 5

\* The test of finalize that lists a station: len(c["pnl"]) >= 5
LargePnl(pnl) == Len(pnl) >= 5

ProbePrivacy_finalize(p) ==
  LET clients == [i \in 1..Len(p.pnls) |->
                    [sta |-> p.pnls[i].key, pnl |-> SortedNames(p.pnls[i].val)]]
      big == SelectSeq(clients, LAMBDA c : LargePnl(c.pnl))
  IN [self |-> p,
      ret |-> [clients |-> clients,
               clients_with_large_pnl |->
                 [i \in 1..Len(big) |-> [sta |-> big[i].sta, count |-> Len(big[i].pnl)]],
               risky_matches |-> <<>>]]

\* ---- WeakSecurity
WeakSecurityInit == [aps |-> <<>>]

\* The walk over the Dot11Elt chain of WeakSecurity.on_packet.
RECURSIVE WeakSecurityWalk(_, _)
WeakSecurityWalk(elts, acc) ==
  IF elts = <<>> THEN acc
  ELSE LET e == Head(elts)
           named == IF e.ID = 0 THEN [acc EXCEPT !.ssid = DecodeIgnore(e.info)] ELSE acc
           next == IF e.ID = 48 THEN [named EXCEPT !.security = "WPA2/3"] ELSE named
       IN WeakSecurityWalk(Tail(elts), next)

WeakSecurity_on_packet_first(w, pkt) ==
  IF ~haslayer(pkt, "Dot11Beacon") THEN w
  ELSE LET bssid == _addr_lower(pkt.addr2)
           r == WeakSecurityWalk(pkt.elts, [ssid |-> NoneStr, security |-> "Open"])
       IN IF Truthy(bssid) /\ ~DictHas(w.aps, bssid)
            THEN [w EXCEPT !.aps = DictSet(@, bssid,
                    [bssid |-> bssid, ssid |-> r.ssid, security |-> r.security,
                     pmf |-> "unknown"])]
          ELSE w

WeakSecurity_on_packet(w, pkt) ==
  IF ~haslayer(pkt, "Dot11Beacon") THEN w
  ELSE LET bssid == _addr_lower(pkt.addr2)
           r == WeakSecurityWalk(pkt.elts, [ssid |-> NoneStr, security |-> "Open"])
       IN IF Truthy(bssid)
            THEN [w EXCEPT !.aps = DictSet(@, bssid,
                    [bssid |-> bssid, ssid |-> r.ssid, security |-> r.security,
                     pmf |-> "unknown"])]
          ELSE w

IsOpenAp(e) == e.val.security = "Open"

WeakSecurity_finalize_resetting(w) ==
  [self |-> WeakSecurityInit,
   ret |-> [aps |-> [i \in 1..Len(w.aps) |-> w.aps[i].val],
            weak_aps |-> [i \in 1..Len(SelectSeq(w.aps, IsOpenAp)) |->
                            SelectSeq(w.aps, IsOpenAp)[i].val]]]

WeakSecurity_finalize(w) ==
  [self |-> w,
   ret |-> [aps |-> [i \in 1..Len(w.aps) |-> w.aps[i].val],
            weak_aps |-> [i \in 1..Len(SelectSeq(w.aps, IsOpenAp)) |->
                            SelectSeq(w.aps, IsOpenAp)[i].val]]]

\* ---- HandshakePMKID
HandshakePMKIDInit == [handshakes |-> <<>>, _seen |-> {}]

\* The WPA_key layer of an EAPOL-Key frame.
WpaKey(key_info, mic, replay, key_iv, nonce) ==
  [present |-> TRUE, key_info |-> key_info, wpa_key_mic |-> mic,
   replay_counter |-> replay, key_iv |-> key_iv, nonce |-> nonce]

MessageNumber_four_first(ki) ==
  LET install == (ki \div 64) % 2
      ack == (ki \div 128) % 2
      micbit == (ki \div 256) % 2
  IN IF ack = 1 /\ micbit = 0 /\ install = 0 THEN 1
     ELSE IF micbit = 1 /\ ack = 0 /\ install = 0 THEN 4
     ELSE IF micbit = 1 /\ ack = 1 /\ install = 1 THEN 3
     ELSE NoneInt

\* The message number inferred from the key_info bits (install bit 6, ack
\* bit 7, MIC bit 8).  The branch for message 4 repeats the test of message
\* 2 and is never taken.
MessageNumber(ki) ==
  LET install == (ki \div 64) % 2
      ack == (ki \div 128) % 2
      micbit == (ki \div 256) % 2
  IN IF ack = 1 /\ micbit = 0 /\ install = 0 THEN 1
     ELSE IF micbit = 1 /\ ack = 0 /\ install = 0 THEN 2
     ELSE IF micbit = 1 /\ ack = 1 /\ install = 1 THEN 3
     ELSE IF micbit = 1 /\ ack = 0 /\ install = 0 THEN 4
     ELSE NoneInt

\* x.hex() if isinstance(x, bytes) else x
HexOrNone(x) == IF x = NoneStr THEN NoneStr ELSE Hex(x)

HandshakePMKID_on_packet_by_role(h, pkt, wpa_key) ==
  IF ~(haslayer(pkt, "Dot11") /\ haslayer(pkt, "EAPOL")) THEN h
  ELSE LET parsed == wpa_key /\ haslayer(pkt, "WPA_key")
           msg_num == IF parsed THEN MessageNumber(pkt.key.key_info) ELSE NoneInt
           bssid == _addr_lower(IF msg_num = 2 THEN pkt.addr1 ELSE pkt.addr2)
           sta == _addr_lower(IF msg_num = 2 THEN pkt.addr2 ELSE pkt.addr1)
           mic == IF parsed THEN pkt.key.wpa_key_mic ELSE NoneStr
           replay == IF parsed THEN pkt.key.replay_counter ELSE NoneInt
           key_iv == IF parsed THEN pkt.key.key_iv ELSE NoneStr
           sig == <<bssid, sta, msg_num, mic, replay, key_iv>>
       IN IF ~(Truthy(bssid) /\ Truthy(sta)) THEN h
          ELSE IF sig \in h._seen THEN h
          ELSE [h EXCEPT
                  !._seen = @ \cup {sig},
                  !.handshakes = Append(@,
                     [bssid |-> bssid, sta |-> sta, message |-> msg_num,
                      mic |-> HexOrNone(mic), replay_counter |-> replay,
                      key_iv |-> HexOrNone(key_iv),
                      anonce |-> NoneStr, snonce |-> NoneStr])]

HandshakePMKID_on_packet_no_replay(h, pkt, wpa_key) ==
  IF ~(haslayer(pkt, "Dot11") /\ haslayer(pkt, "EAPOL")) THEN h
  ELSE LET bssid == _addr_lower(pkt.addr2)
           sta == _addr_lower(pkt.addr1)
           parsed == wpa_key /\ haslayer(pkt, "WPA_key")
           msg_num == IF parsed THEN MessageNumber(pkt.key.key_info) ELSE NoneInt
           mic == IF parsed THEN pkt.key.wpa_key_mic ELSE NoneStr
           replay == IF parsed THEN pkt.key.replay_counter ELSE NoneInt
           key_iv == IF parsed THEN pkt.key.key_iv ELSE NoneStr
           sig == <<bssid, sta, msg_num, mic, key_iv>>
       IN IF ~(Truthy(bssid) /\ Truthy(sta)) THEN h
          ELSE IF sig \in h._seen THEN h
          ELSE [h EXCEPT
                  !._seen = @ \cup {sig},
                  !.handshakes = Append(@,
                     [bssid |-> bssid, sta |-> sta, message |-> msg_num,
                      mic |-> HexOrNone(mic), replay_counter |-> replay,
                      key_iv |-> HexOrNone(key_iv),
                      anonce |-> NoneStr, snonce |-> NoneStr])]

\* wpa_key is whether the optional import of scapy.contrib.wpa_eapol.WPA_key
\* succeeded.
HandshakePMKID_on_packet(h, pkt, wpa_key) ==
  IF ~(haslayer(pkt, "Dot11") /\ haslayer(pkt, "EAPOL")) THEN h
  ELSE LET bssid == _addr_lower(pkt.addr2)
           sta == _addr_lower(pkt.addr1)
           parsed == wpa_key /\ haslayer(pkt, "WPA_key")
           msg_num == IF parsed THEN MessageNumber(pkt.key.key_info) ELSE NoneInt
           mic == IF parsed THEN pkt.key.wpa_key_mic ELSE NoneStr
           replay == IF parsed THEN pkt.key.replay_counter ELSE NoneInt
           key_iv == IF parsed THEN pkt.key.key_iv ELSE NoneStr
           anonce == IF parsed THEN pkt.key.nonce ELSE NoneStr
           sig == <<bssid, sta, msg_num, mic, replay, key_iv>>
       IN IF ~(Truthy(bssid) /\ Truthy(sta)) THEN h
          ELSE IF sig \in h._seen THEN h
          ELSE [h EXCEPT
                  !._seen = @ \cup {sig},
                  !.handshakes = Append(@,
                     [bssid |-> bssid, sta |-> sta, message |-> msg_num,
                      mic |-> HexOrNone(mic), replay_counter |-> replay,
                      key_iv |-> HexOrNone(key_iv),
                      anonce |-> IF anonce = <<>> THEN NoneStr ELSE HexOrNone(anonce),
                      snonce |-> NoneStr])]

HandshakePMKID_finalize(h) == [self |-> h, ret |-> [handshakes |-> h.handshakes]]

\* ------------------------------------------------------ traffic_profiler.py
\* percentages[k] = (v / total_packets) * 100 is kept as the exact fraction
\* v * 100 / total_packets; for every capture of up to 3000 frames the float
\* comparisons of the source agree with the exact ones against the
\* thresholds 5, 10, 15, 30, 40 and 60.
Percentages(frame_mix, total_packets) ==
  [k \in DOMAIN frame_mix |-> [num |-> frame_mix[k] * 100, den |-> total_packets]]

\* percentages.get(k, 0)
PctGet(percentages, k) == Get(percentages, k, [num |-> 0, den |-> 1])

GT_nonstrict(pct, n) == pct.num >= n * pct.den

\* pct > n
GT(pct, n) == pct.num > n * pct.den

\* pct < n
LT(pct, n) == pct.num < n * pct.den

_classify_profile(percentages) ==
  LET deauth_pct == PctGet(percentages, "deauth")
      disassoc_pct == PctGet(percentages, "disassoc")
      beacon_pct == PctGet(percentages, "beacon")
      probe_req_pct == PctGet(percentages, "probe_req")
  IN IF GT(deauth_pct, 10) \/ GT(disassoc_pct, 5) THEN "deauth_attack"
     ELSE IF GT(probe_req_pct, 30) THEN "active_scanning"
     ELSE IF GT(beacon_pct, 60) /\ LT(probe_req_pct, 10) THEN "passive_monitoring"
     ELSE IF GT(probe_req_pct, 15) /\ LT(beacon_pct, 40) THEN "client_activity"
     ELSE "normal_mixed"

Suggest(analyzer, priority) == [analyzer |-> analyzer, priority |-> priority]

_suggest_analyzers_with_burst(profile) ==
  IF profile = "deauth_attack"
    THEN <<Suggest("DeauthDisassoc", "high"), Suggest("EvilTwinHeuristic", "medium")>>
  ELSE IF profile = "active_scanning"
    THEN <<Suggest("ProbePrivacy", "high"), Suggest("EvilTwinHeuristic", "medium")>>
  ELSE IF profile = "passive_monitoring"
    THEN <<Suggest("WeakSecurity", "high"), Suggest("EvilTwinHeuristic", "medium")>>
  ELSE IF profile = "client_activity"
    THEN <<Suggest("ProbePrivacy", "high"), Suggest("HandshakePMKID", "medium")>>
  ELSE IF profile = "normal_mixed"
    THEN <<Suggest("WeakSecurity", "medium"), Suggest("DeauthDisassoc", "medium")>>
  ELSE <<>>

_suggest_analyzers(profile) ==
  IF profile = "deauth_attack"
    THEN <<Suggest("DeauthDisassoc", "high"), Suggest("EvilTwinHeuristic", "medium")>>
  ELSE IF profile = "active_scanning"
    THEN <<Suggest("ProbePrivacy", "high"), Suggest("EvilTwinHeuristic", "medium")>>
  ELSE IF profile = "passive_monitoring"
    THEN <<Suggest("WeakSecurity", "high"), Suggest("EvilTwinHeuristic", "medium")>>
  ELSE IF profile = "client_activity"
    THEN <<Suggest("ProbePrivacy", "high"), Suggest("HandshakePMKID", "medium")>>
  ELSE IF profile = "normal_mixed"
    THEN <<Suggest("WeakSecurity", "medium"), Suggest("ProbePrivacy", "low")>>
  ELSE <<>>

Indicator(type, severity) == [type |-> type, severity |-> severity]

_check_security_indicators_by_profile(percentages) ==
  (IF _classify_profile(percentages) = "deauth_attack"
     THEN <<Indicator("deauth_flood", "high")>> ELSE <<>>)
  \o (IF GT(PctGet(percentages, "probe_req"), 40)
        THEN <<Indicator("excessive_probing", "medium")>> ELSE <<>>)

\* The indicators, without their description text.
_check_security_indicators(percentages) ==
  (IF GT(PctGet(percentages, "deauth"), 5)
     THEN <<Indicator("deauth_flood", "high")>> ELSE <<>>)
  \o (IF GT(PctGet(percentages, "probe_req"), 40)
        THEN <<Indicator("excessive_probing", "medium")>> ELSE <<>>)

\* The result for an empty capture has no analyzer_suggestions and no
\* security_indicators key: both read as [] by the callers' .get(key, []).
analyze_traffic_profile(frame_mix, total_packets) ==
  IF total_packets = 0
    THEN [profile |-> "empty", analyzer_suggestions |-> <<>>, security_indicators |-> <<>>]
  ELSE LET percentages == Percentages(frame_mix, total_packets)
       IN [profile |-> _classify_profile(percentages),
           analyzer_suggestions |-> _suggest_analyzers(_classify_profile(percentages)),
           security_indicators |-> _check_security_indicators(percentages)]

\* ------------------------------------------- smart_analysis.py, selection
AnalyzerNames ==
  {"DeauthDisassoc", "EvilTwinHeuristic", "ProbePrivacy", "WeakSecurity", "HandshakePMKID"}

OfPriority_any(suggestions, prio) ==
  SelectSeq(suggestions,
            LAMBDA sg : (sg.priority = prio \/ (prio = "medium" /\ sg.priority = "low"))
                        /\ sg.analyzer \in AnalyzerNames)

\* The suggestions of one priority, in ranked order.
OfPriority(suggestions, prio) ==
  SelectSeq(suggestions, LAMBDA sg : sg.priority = prio /\ sg.analyzer \in AnalyzerNames)

\* The second loop of _select_analyzers_from_profile: a medium suggestion is
\* appended unless an analyzer of that class is already selected.
RECURSIVE AddMedium(_, _)
AddMedium(analyzers, mediums) ==
  IF mediums = <<>> THEN analyzers
  ELSE IF Head(mediums).analyzer \in Range(analyzers)
    THEN AddMedium(analyzers, Tail(mediums))
  ELSE AddMedium(Append(analyzers, Head(mediums).analyzer), Tail(mediums))

_select_analyzers_from_profile_no_default(profile_analysis) ==
  LET suggestions == profile_analysis.analyzer_suggestions
      highs == OfPriority(suggestions, "high")
      high == [i \in 1..Len(highs) |-> highs[i].analyzer]
  IN IF Len(high) < 3 THEN AddMedium(high, OfPriority(suggestions, "medium")) ELSE high

\* The class names of the analyzers selected, in order.
_select_analyzers_from_profile(profile_analysis) ==
  LET suggestions == profile_analysis.analyzer_suggestions
      highs == OfPriority(suggestions, "high")
      high == [i \in 1..Len(highs) |-> highs[i].analyzer]
      both == IF Len(high) < 3 THEN AddMedium(high, OfPriority(suggestions, "medium"))
              ELSE high
  IN IF both = <<>> THEN <<"WeakSecurity">> ELSE both

\* ------------------------------------------------------------ analysis.py
\* Counter updates of analyze_pcap: one independent test per layer.
RECURSIVE IncrAll(_, _)
IncrAll(frame_mix, tags) ==
  IF tags = <<>> THEN frame_mix ELSE IncrAll(Incr(frame_mix, Head(tags)), Tail(tags))

LegacyTags(pkt) ==
  (IF haslayer(pkt, "Dot11Beacon") THEN <<"beacon">> ELSE <<>>)
  \o (IF haslayer(pkt, "Dot11ProbeReq") THEN <<"probe_req">> ELSE <<>>)
  \o (IF haslayer(pkt, "Dot11ProbeResp") THEN <<"probe_resp">> ELSE <<>>)
  \o (IF haslayer(pkt, "Dot11Deauth") THEN <<"deauth">> ELSE <<>>)
  \o (IF haslayer(pkt, "Dot11Disas") THEN <<"disassoc">> ELSE <<>>)

\* ssids.add(info.decode(errors="ignore")) for every SSID element.
LegacySsids(elts) ==
  {DecodeIgnore(elts[i].info) : i \in {j \in 1..Len(elts) : elts[j].ID = 0}}

\* The summary part of one iteration of the loop of analyze_pcap over a frame
\* that decoded to pkt; the analyzers are fed by the same iteration.
AnalyzePcapFrame(st, pkt) ==
  LET counted == [st EXCEPT !.total_packets = @ + 1]
  IN IF pkt = NonePkt THEN counted
     ELSE IF ~haslayer(pkt, "Dot11") THEN counted
     ELSE
       LET isAp == haslayer(pkt, "Dot11Beacon") \/ haslayer(pkt, "Dot11ProbeResp")
       IN [counted EXCEPT
             !.frame_mix = IncrAll(@, LegacyTags(pkt)),
             !.devices = @ \cup AddrsOf(pkt),
             !.aps = IF isAp /\ Truthy(pkt.addr2) THEN @ \cup {Lower(pkt.addr2)} ELSE @,
             !.ssids = IF isAp THEN @ \cup LegacySsids(pkt.elts) ELSE @,
             !.clients = IF haslayer(pkt, "Dot11ProbeReq") /\ Truthy(pkt.addr2)
                           THEN @ \cup {Lower(pkt.addr2)} ELSE @]

\* ------------------------------------------------------ the analyzer objects
\* The arguments every caller passes to DeauthDisassoc.
RunBurstWindow == 10
RunBurstThreshold == 40

\* A new instance of the class.
NewAnalyzer(name) ==
  IF name = "DeauthDisassoc" THEN DeauthDisassocInit(RunBurstWindow, RunBurstThreshold)
  ELSE IF name = "EvilTwinHeuristic" THEN EvilTwinInit
  ELSE IF name = "ProbePrivacy" THEN ProbePrivacyInit
  ELSE IF name = "WeakSecurity" THEN WeakSecurityInit
  ELSE HandshakePMKIDInit

\* analyzer.on_packet(pkt), read at clock reading ts.
on_packet(name, self, pkt, ts, wpa_key) ==
  IF name = "DeauthDisassoc" THEN DeauthDisassoc_on_packet(self, pkt, ts)
  ELSE IF name = "EvilTwinHeuristic" THEN EvilTwinHeuristic_on_packet(self, pkt)
  ELSE IF name = "ProbePrivacy" THEN ProbePrivacy_on_packet(self, pkt)
  ELSE IF name = "WeakSecurity" THEN WeakSecurity_on_packet(self, pkt)
  ELSE HandshakePMKID_on_packet(self, pkt, wpa_key)

\* analyzer.finalize()
finalize(name, self) ==
  IF name = "DeauthDisassoc" THEN DeauthDisassoc_finalize(self)
  ELSE IF name = "EvilTwinHeuristic" THEN EvilTwinHeuristic_finalize(self)
  ELSE IF name = "ProbePrivacy" THEN ProbePrivacy_finalize(self)
  ELSE IF name = "WeakSecurity" THEN WeakSecurity_finalize(self)
  ELSE HandshakePMKID_finalize(self)

\* for a in analyzers: a.on_packet(pkt)
FeedAll(d, pkt, ts, wpa_key) ==
  [n \in DOMAIN d |-> on_packet(n, d[n], pkt, ts, wpa_key)]

\* ================================================================== state
VARIABLES
  input,      \* the argument of the function under check
  output,     \* its result, None before the call
  pc,         \* where the operation under check stands
  capture,    \* the raw frames of the capture file
  idx,        \* frames of the capture read by the running pass
  stats,      \* the locals of the statistics pass
  profile,    \* the result of analyze_traffic_profile
  selected,   \* the class names of the analyzers of pass 2
  det,        \* analyzer class name -> the state of its instance
  ret,        \* analyzer class name -> the value its last finalize returned
  clock,      \* the last reading of time()
  WPA_key,    \* whether analyzers.py could import scapy.contrib.wpa_eapol.WPA_key
  log,        \* the packets handed to on_packet so far, with their readings
  pcap_analyses, \* the rows of table pcap_analyses of one capture, by id
  requests,   \* the calls of an endpoint: where each stands, and its locals
  tasks,      \* analysis id -> where its background task stands
  redis       \* the keys of the Redis server: key -> value and expiry time

fnVars == <<input, output>>
runVars == <<capture, idx, stats, profile, selected>>
detVars == <<det, ret, clock, WPA_key, log>>
jobVars == <<pcap_analyses, requests, tasks, redis>>
vars ==
  <<input, output, pc, capture, idx, stats, profile, selected, det, ret, clock, WPA_key, log,
    pcap_analyses, requests, tasks, redis>>

NoProfile == [profile |-> "not computed", analyzer_suggestions |-> <<>>,
              security_indicators |-> <<>>]

FnIdle == input = None /\ output = None
RunIdle ==
  capture = <<>> /\ idx = 0 /\ stats = BasicStatsInit /\ profile = NoProfile
  /\ selected = <<>>
DetIdle == det = <<>> /\ ret = <<>> /\ clock = 0 /\ WPA_key = TRUE /\ log = <<>>
JobIdle == pcap_analyses = <<>> /\ requests = <<>> /\ tasks = <<>> /\ redis = <<>>

\* ------------------------------------------------- the frame classifier
SubLayers ==
  {"Dot11Auth", "Dot11AssoReq", "Dot11AssoResp", "Dot11ReassoReq", "Dot11ReassoResp",
   "Dot11Beacon", "Dot11ProbeReq", "Dot11ProbeResp", "Dot11Deauth", "Dot11Disas",
   "Dot11ATIM", "Dot11QoS"}

\* The sets of at most n of the layers the classifier tests.
LayerSets(n) == {x \in SUBSET SubLayers : Cardinality(x) <= n}

\* The input is any packet with a Dot11 header, up to MaxLayers of the layers
\* the classifier tests and any (type, subtype), captured with or without a
\* radiotap header; or a radiotap header with no 802.11 frame inside.
InitClassify ==
  /\ JobIdle
  /\ \/ \E ls \in LayerSets(MaxLayers), t \in 0..3, st \in 0..15 :
          \/ input = RawOf(Dot11Pkt(ls, t, st, None, None, None, <<>>))
          \/ input = RawDirect(Dot11Pkt(ls, t, st, None, None, None, <<>>))
     \/ input = RawOf(RadioTapOnly)
  /\ output = None
  /\ pc = "classify"
  /\ RunIdle /\ DetIdle

\* frame_type = _categorize_802_11_frame(safe_dot11_decode(pkt_bytes))
Categorize ==
  /\ pc = "classify"
  /\ output' = _categorize_802_11_frame(safe_dot11_decode(input))
  /\ pc' = "done"
  /\ UNCHANGED <<input, runVars, detVars, jobVars>>

NextClassify == Categorize

SpecClassify == InitClassify /\ [][NextClassify]_vars

\* The priority order of the classifier, as the specification lists it.
PriorityOrder ==
  <<[layer |-> "Dot11Auth", tag |-> "auth"],
    [layer |-> "Dot11AssoReq", tag |-> "assoc_req"],
    [layer |-> "Dot11AssoResp", tag |-> "assoc_resp"],
    [layer |-> "Dot11ReassoReq", tag |-> "reassoc_req"],
    [layer |-> "Dot11ReassoResp", tag |-> "reassoc_resp"],
    [layer |-> "Dot11Beacon", tag |-> "beacon"],
    [layer |-> "Dot11ProbeReq", tag |-> "probe_req"],
    [layer |-> "Dot11ProbeResp", tag |-> "probe_resp"],
    [layer |-> "Dot11Deauth", tag |-> "deauth"],
    [layer |-> "Dot11Disas", tag |-> "disassoc"],
    [layer |-> "Dot11ATIM", tag |-> "atim"],
    [layer |-> "Dot11QoS", tag |-> "qos_data"]>>

ControlTags == {"rts", "cts", "ack", "ps_poll", "cf_end", "cf_end_ack", "control_other"}

DataTags ==
  {"data", "data_cf_ack", "data_cf_poll", "data_cf_ack_poll", "null_data", "cf_ack",
   "cf_poll", "cf_ack_poll", "data_other"}

\* C9: every decoded frame gets exactly one category.  For a frame with an
\* 802.11 header it is the tag of the first layer of the priority order that
\* the frame holds (auth > assoc_req > assoc_resp > reassoc_req >
\* reassoc_resp > beacon > probe_req > probe_resp > deauth > disassoc > atim >
\* qos_data); when it holds none of them, the tag the type/subtype table gives
\* for its type; a decoded frame without 802.11 header gets the one tag
\* radiotap_no_dot11.
C9_ClassifierPriority ==
  pc = "done" =>
    LET pkt == safe_dot11_decode(input)
        hits == {i \in 1..Len(PriorityOrder) : PriorityOrder[i].layer \in pkt.layers}
    IN /\ pkt # NonePkt
       /\ IF "Dot11" \notin pkt.layers THEN output = "radiotap_no_dot11"
          ELSE IF hits # {}
            THEN output = PriorityOrder[CHOOSE i \in hits : \A j \in hits : i <= j].tag
          ELSE /\ pkt.type = 0 => output = "mgmt_other"
               /\ pkt.type = 1 => output \in ControlTags
               /\ pkt.type = 2 => output \in DataTags
               /\ pkt.type = 3 => output = "reserved"
               /\ pkt.type = 1 /\ pkt.subtype = 13 => output = "ack"
               /\ pkt.type = 2 /\ pkt.subtype = 4 => output = "null_data"
               /\ output \in {"mgmt_other", "reserved"} \cup ControlTags \cup DataTags

\* A frame holding both an authentication and a beacon layer was classified.
C9_Witness ==
  /\ pc = "done"
  /\ {"Dot11Auth", "Dot11Beacon"} \subseteq safe_dot11_decode(input).layers
  /\ output = "auth"

\* ------------------------------------------------- the traffic profiler
\* A frame mix as the Counter of pass 1 holds it: the categories that occurred.
FrameMix(deauth, disassoc, beacon, probe_req, other) ==
  LET all == [k \in {"deauth", "disassoc", "beacon", "probe_req", "data"} |->
                IF k = "deauth" THEN deauth
                ELSE IF k = "disassoc" THEN disassoc
                ELSE IF k = "beacon" THEN beacon
                ELSE IF k = "probe_req" THEN probe_req
                ELSE other]
  IN [k \in {x \in DOMAIN all : all[x] > 0} |-> all[k]]

Mix(total, d, s, b, q) ==
  [frame_mix |-> FrameMix(d, s, b, q, total - (d + s + b + q)), total_packets |-> total]

\* The input is any frame mix of up to MaxTotal frames, or a mix of 100
\* frames counted in steps of 5.
InitProfiler ==
  /\ JobIdle
  /\ \/ \E t \in 1..MaxTotal : \E d \in 0..t : \E s \in 0..(t - d) :
          \E b \in 0..(t - d - s) : \E q \in 0..(t - d - s - b) :
            input = Mix(t, d, s, b, q)
     \/ \E d \in 0..20 : \E s \in 0..(20 - d) :
          \E b \in 0..(20 - d - s) : \E q \in 0..(20 - d - s - b) :
            input = Mix(100, 5 * d, 5 * s, 5 * b, 5 * q)
  /\ output = None
  /\ pc = "profile"
  /\ RunIdle /\ DetIdle

Profile ==
  /\ pc = "profile"
  /\ output' = analyze_traffic_profile(input.frame_mix, input.total_packets)
  /\ pc' = "done"
  /\ UNCHANGED <<input, runVars, detVars, jobVars>>

NextProfiler == Profile

SpecProfiler == InitProfiler /\ [][NextProfiler]_vars

\* The count of a category in the input frame mix.
CountIn(k) == Get(input.frame_mix, k, 0)

\* C6: the profile is the first match of: deauth% > 10 or disassoc% > 5 gives
\* deauth_attack; probe_req% > 30 gives active_scanning; beacon% > 60 and
\* probe_req% < 10 gives passive_monitoring; probe_req% > 15 and beacon% < 40
\* gives client_activity; else normal_mixed.  The comparisons are strict, and
\* 15 deauth frames of 100 give deauth_attack.
C6_ProfileFirstMatch ==
  pc = "done" =>
    LET t == input.total_packets
        attack == 100 * CountIn("deauth") > 10 * t \/ 100 * CountIn("disassoc") > 5 * t
        scanning == 100 * CountIn("probe_req") > 30 * t
        passive == 100 * CountIn("beacon") > 60 * t /\ 100 * CountIn("probe_req") < 10 * t
        client == 100 * CountIn("probe_req") > 15 * t /\ 100 * CountIn("beacon") < 40 * t
    IN /\ output.profile = "deauth_attack" <=> attack
       /\ output.profile = "active_scanning" <=> ~attack /\ scanning
       /\ output.profile = "passive_monitoring" <=> ~attack /\ ~scanning /\ passive
       /\ output.profile = "client_activity" <=>
            ~attack /\ ~scanning /\ ~passive /\ client
       /\ output.profile = "normal_mixed" <=>
            ~attack /\ ~scanning /\ ~passive /\ ~client
       /\ (100 * CountIn("deauth") = 10 * t /\ 100 * CountIn("disassoc") <= 5 * t)
            => output.profile # "deauth_attack"
       /\ (t = 100 /\ CountIn("deauth") = 15) => output.profile = "deauth_attack"

\* The frame mix {deauth: 15} of 100 frames was profiled as deauth_attack.
C6_Witness ==
  /\ pc = "done"
  /\ input.total_packets = 100
  /\ CountIn("deauth") = 15
  /\ CountIn("disassoc") = 0
  /\ output.profile = "deauth_attack"

HasIndicator(type, severity) ==
  \E i \in 1..Len(output.security_indicators) :
    output.security_indicators[i] = Indicator(type, severity)

IndicatorTypes ==
  {output.security_indicators[i].type : i \in 1..Len(output.security_indicators)}

\* C7: whatever the profile, a deauth_flood indicator of severity high is
\* emitted exactly when deauth% > 5 and an excessive_probing indicator of
\* severity medium exactly when probe_req% > 40; no other indicator is emitted.
C7_IndicatorsIndependent ==
  pc = "done" =>
    /\ HasIndicator("deauth_flood", "high") <=>
         100 * CountIn("deauth") > 5 * input.total_packets
    /\ HasIndicator("excessive_probing", "medium") <=>
         100 * CountIn("probe_req") > 40 * input.total_packets
    /\ IndicatorTypes \subseteq {"deauth_flood", "excessive_probing"}
    /\ \A i \in 1..Len(output.security_indicators) :
         output.security_indicators[i].type = "deauth_flood"
           <=> output.security_indicators[i].severity = "high"

\* A mix with more than 5% and at most 10% deauth frames got the deauth_flood
\* indicator although its profile is not deauth_attack.
C7_Witness ==
  /\ pc = "done"
  /\ HasIndicator("deauth_flood", "high")
  /\ output.profile # "deauth_attack"

\* ------------------------------------------------- the statistics passes
Bcast == "ff:ff"

SsidElt(name) == Elt(0, name)

\* The frames of the captures fed to the statistics passes.  The names are
\* "A" (65), "B " (66 32), the hidden name (empty) and the Latin-1 byte 200.
StatsFrames ==
  {RawGarbage,
   RawOf(RadioTapOnly),
   RawOf(Dot11Pkt({"Dot11Beacon", "Dot11Elt"}, 0, 8, Bcast, "aa:01", "aa:01",
                  <<SsidElt(<<65>>), Elt(3, <<6>>)>>)),
   RawOf(Dot11Pkt({"Dot11ProbeReq", "Dot11Elt"}, 0, 4, Bcast, "cc:01", Bcast,
                  <<SsidElt(<<>>), SsidElt(<<66, 32>>)>>)),
   RawOf(Dot11Pkt({"Dot11ProbeResp", "Dot11Elt"}, 0, 5, "cc:01", "aa:02", "aa:02",
                  <<SsidElt(<<200>>), Elt(48, <<1>>)>>)),
   RawOf(Dot11Pkt({"Dot11Auth"}, 0, 11, "aa:02", "cc:02", "aa:02", <<>>)),
   RawOf(Dot11Pkt({"Dot11AssoReq", "Dot11Elt"}, 0, 0, "aa:01", "cc:01", "aa:01",
                  <<SsidElt(<<65>>)>>)),
   RawOf(Dot11Pkt({"Dot11Deauth"}, 0, 12, "cc:01", "aa:01", "aa:01", <<>>)),
   RawOf(Dot11Pkt({}, 1, 13, "cc:02", None, None, <<>>)),
   RawDirect(Dot11Pkt({}, 2, 0, "aa:01", "cc:02", "aa:01", <<>>))}

\* analyze_pcap instantiates its four analyzers before it reads the capture.
LegacyAnalyzers ==
  [n \in {"DeauthDisassoc", "EvilTwinHeuristic", "ProbePrivacy", "WeakSecurity"} |->
     NewAnalyzer(n)]

\* Either statistics pass is about to read its first frame.
InitStats ==
  /\ JobIdle
  /\ \/ pc = "pass1" /\ det = <<>>
     \/ pc = "analyze_pcap" /\ det = LegacyAnalyzers
  /\ capture = <<>> /\ idx = 0 /\ stats = BasicStatsInit /\ profile = NoProfile
  /\ selected = <<>>
  /\ ret = <<>> /\ clock = 0 /\ WPA_key = TRUE /\ log = <<>>
  /\ FnIdle

\* One iteration of the loop of _get_basic_stats_and_frame_mix, over the raw
\* frame the reader yields.  An exception escaping the decoder would end the
\* pass.
Pass1Read(raw) ==
  /\ pc = "pass1"
  /\ LET pkt == safe_dot11_decode(raw)
     IN IF pkt = Raised
          THEN pc' = "aborted" /\ UNCHANGED <<idx, stats>>
        ELSE pc' = pc /\ idx' = idx + 1 /\ stats' = BasicStatsFrame(stats, pkt)
  /\ UNCHANGED <<fnVars, jobVars, capture, profile, selected, detVars>>

\* The pass over a capture whose next frame is any of StatsFrames.
Pass1Frame == idx < MaxStatsFrames /\ \E raw \in StatsFrames : Pass1Read(raw)

\* One iteration of the loop of analyze_pcap: the summary, then every
\* analyzer's on_packet (DeauthDisassoc reads time() there).
AnalyzePcapStep ==
  /\ pc = "analyze_pcap"
  /\ idx < MaxStatsFrames
  /\ \E raw \in StatsFrames, dt \in {0, 1} :
       LET pkt == safe_dot11_decode(raw)
       IN IF pkt = Raised
            THEN pc' = "aborted" /\ UNCHANGED <<idx, stats, det, clock>>
          ELSE /\ pc' = pc /\ idx' = idx + 1
               /\ stats' = AnalyzePcapFrame(stats, pkt)
               /\ IF pkt # NonePkt /\ haslayer(pkt, "Dot11")
                    THEN clock' = clock + dt /\ det' = FeedAll(det, pkt, clock', WPA_key)
                  ELSE UNCHANGED <<det, clock>>
  /\ UNCHANGED <<fnVars, jobVars, capture, profile, selected, ret, WPA_key, log>>

NextStats == Pass1Frame \/ AnalyzePcapStep

SpecStats == InitStats /\ [][NextStats]_vars

\* The sum of the frame_mix counts.
FrameMixSum == SumSet(stats.frame_mix, DOMAIN stats.frame_mix)

\* C1: after every frame of the statistics pass of smart_analyze_pcap, the
\* frame_mix counts sum to total_packets, also when a frame fails to decode
\* or holds no 802.11 header.
C1_FrameMixSumsToTotal == pc = "pass1" => FrameMixSum = stats.total_packets

\* C2: after every prefix of the capture, every address in the AP set or the
\* client set is in the device set, so unique_devices >= unique_aps and
\* unique_devices >= unique_clients.
C2_DevicesCoverApsAndClients ==
  /\ stats.aps \subseteq stats.devices
  /\ stats.clients \subseteq stats.devices
  /\ BasicStatsResult(stats).unique_devices >= BasicStatsResult(stats).unique_aps
  /\ BasicStatsResult(stats).unique_devices >= BasicStatsResult(stats).unique_clients

\* The pass of smart_analyze_pcap took the receiver of an authentication
\* frame as an AP and its sender as a client.
C2_Witness ==
  /\ pc = "pass1"
  /\ "aa:02" \in stats.aps
  /\ "cc:02" \in stats.clients
  /\ stats.total_packets = 1

\* ------------------------------------------------- analyzers fed directly
\* One on_packet call on every analyzer instantiated, at a new reading of
\* time() that is dt later than the last one.
Feed(frames, ticks, max) ==
  /\ pc = "feed"
  /\ Len(log) < max
  /\ \E pkt \in frames, dt \in ticks :
       /\ clock' = clock + dt
       /\ det' = FeedAll(det, pkt, clock', WPA_key)
       /\ log' = Append(log, [ts |-> clock', pkt |-> pkt])
  /\ ret' = <<>>
  /\ UNCHANGED <<fnVars, jobVars, pc, runVars, WPA_key>>

\* The end of the stream: finalize is called on every analyzer.
FinalizeAll ==
  /\ pc = "feed"
  /\ pc' = "done"
  /\ ret' = [n \in DOMAIN det |-> finalize(n, det[n]).ret]
  /\ det' = [n \in DOMAIN det |-> finalize(n, det[n]).self]
  /\ UNCHANGED <<fnVars, jobVars, runVars, clock, WPA_key, log>>

\* A finalize call on one analyzer in the middle of the stream.
FinalizeOne ==
  /\ pc = "feed"
  /\ \E n \in DOMAIN det :
       /\ ret' = [m \in {n} |-> finalize(n, det[n]).ret]
       /\ det' = [det EXCEPT ![n] = finalize(n, det[n]).self]
  /\ UNCHANGED <<fnVars, jobVars, pc, runVars, clock, WPA_key, log>>

InitFeed(analyzers, wpa) ==
  /\ JobIdle
  /\ pc = "feed"
  /\ det = analyzers
  /\ ret = <<>> /\ clock = 0 /\ log = <<>>
  /\ WPA_key \in wpa
  /\ FnIdle /\ RunIdle

\* The packets of the log that satisfy Test, in the order fed.
Fed(Test(_)) == SelectSeq(log, LAMBDA e : Test(e.pkt))

\* ---- DeauthDisassoc(burst_window_s, burst_threshold)
Mgmt(layer, subtype, src, elts) ==
  Dot11Pkt({layer} \cup (IF elts = <<>> THEN {} ELSE {"Dot11Elt"}), 0, subtype,
           Bcast, src, src, elts)

DeauthFrames ==
  {Mgmt("Dot11Deauth", 12, "aa:01", <<>>),
   Mgmt("Dot11Disas", 10, "aa:02", <<>>),
   Mgmt("Dot11Beacon", 8, "aa:01", <<SsidElt(<<65>>)>>)}

\* The clock reads the same, one second later, or past the window.
DeauthTicks == {0, 1, burst_window_s + 1}

InitDeauth ==
  InitFeed([n \in {"DeauthDisassoc"} |->
              DeauthDisassocInit(burst_window_s, burst_threshold)], {TRUE})

NextDeauth == Feed(DeauthFrames, DeauthTicks, MaxDeauthFrames) \/ FinalizeAll

SpecDeauth == InitDeauth /\ [][NextDeauth]_vars

IsDeauth(pkt) == haslayer(pkt, "Dot11Deauth")

IsDisas(pkt) == haslayer(pkt, "Dot11Disas")

\* C3: when exactly burst_threshold deauth frames, all of one source, have been
\* fed (and no disassociation frame), one burst record naming that source and
\* counting the frames is recorded if their readings lie within
\* burst_window_s of each other, and none if they do not (fewer than
\* burst_threshold of them then fall in any interval of that length).
C3_ThresholdBurst ==
  LET d == Fed(IsDeauth)
      srcs == {d[i].pkt.addr2 : i \in 1..Len(d)}
  IN (Len(d) = burst_threshold /\ Cardinality(srcs) = 1 /\ Fed(IsDisas) = <<>>) =>
       IF d[Len(d)].ts - d[1].ts <= burst_window_s
         THEN det["DeauthDisassoc"].bursts =
                <<[bssid |-> Lower(d[1].pkt.addr2), count |-> burst_threshold,
                   window_s |-> burst_window_s]>>
       ELSE det["DeauthDisassoc"].bursts = <<>>

\* burst_threshold deauth frames of one source, the first and the last exactly
\* burst_window_s apart, were fed and finalize reports one burst.
C3_Witness ==
  LET d == Fed(IsDeauth)
  IN /\ pc = "done"
     /\ Len(d) = burst_threshold
     /\ Fed(IsDisas) = <<>>
     /\ d[Len(d)].ts - d[1].ts = burst_window_s
     /\ Len(ret["DeauthDisassoc"].suspicious_bursts) = 1
     /\ ret["DeauthDisassoc"].suspicious_bursts[1].bssid = "aa:01"

\* ---- the event queue of DeauthDisassoc, for any threshold from 1 on
InitQueue ==
  \E t \in 1..burst_threshold :
    InitFeed([n \in {"DeauthDisassoc"} |-> DeauthDisassocInit(burst_window_s, t)], {TRUE})

NextQueue == Feed(DeauthFrames, DeauthTicks, MaxDeauthFrames) \/ FinalizeAll

SpecQueue == InitQueue /\ [][NextQueue]_vars

\* C25: after every on_packet call the event queue is in non-decreasing
\* order of timestamp, every event in it is at most window_s older than the
\* newest timestamp (the reading of the last call), and it holds fewer than
\* threshold events.
C25_QueueInvariant ==
  LET d == det["DeauthDisassoc"]
  IN /\ \A i, j \in 1..Len(d.events) : i < j => d.events[i].ts <= d.events[j].ts
     /\ \A i \in 1..Len(d.events) : clock - d.events[i].ts <= d.win
     /\ Len(d.events) < d.th

\* Events were evicted, not cleared by a burst, and a younger event is left
\* in the queue.
C25_Witness ==
  LET d == det["DeauthDisassoc"]
  IN /\ d.bursts = <<>>
     /\ Len(d.events) >= 1
     /\ d.deauth + d.disas >= Len(d.events) + 2

\* The queue at the moment the threshold is tested in the call that takes
\* the state from d: the events of d and the new one, those older than the
\* window left out.
QueueAtTest(d, entry) ==
  LET all == IF IsDeauth(entry.pkt) \/ IsDisas(entry.pkt)
               THEN Append(d.events, [ts |-> entry.ts, src |-> Lower(entry.pkt.addr2)])
             ELSE d.events
  IN SelectSeq(all, LAMBDA e : entry.ts - e.ts <= d.win)

RECURSIVE SumCounts(_)
SumCounts(bursts) == IF bursts = <<>> THEN 0 ELSE Head(bursts).count + SumCounts(Tail(bursts))

\* C26: a burst that is emitted names a source whose number of events in the
\* queue at that moment is maximal and counts the events of the queue, and
\* the queue is empty right after; no event is counted in two bursts: the
\* counts of the bursts add up to no more than the events fed, and
\* 2 * threshold frames of one source within one window give two bursts.
C26_BurstAttribution ==
  [][LET d == det["DeauthDisassoc"]
         e == det'["DeauthDisassoc"]
     IN /\ Len(e.bursts) > Len(d.bursts) =>
             LET q == QueueAtTest(d, log'[Len(log')])
                 b == e.bursts[Len(e.bursts)]
             IN /\ Len(e.bursts) = Len(d.bursts) + 1
                /\ b.count = Len(q)
                /\ \A i \in 1..Len(q) : CountOf(q, q[i].src) <= CountOf(q, b.bssid)
                /\ CountOf(q, b.bssid) >= 1
                /\ e.events = <<>>
        /\ SumCounts(e.bursts) + Len(e.events) <= e.deauth + e.disas
        /\ (/\ Len(log') = 2 * e.th
            /\ \A i \in 1..Len(log') : IsDeauth(log'[i].pkt)
            /\ log'[Len(log')].ts - log'[1].ts <= e.win)
           => Len(e.bursts) = 2]_vars

\* At threshold 2, four frames of one source within one window gave two
\* bursts and left the queue empty.
C26_Witness ==
  LET d == det["DeauthDisassoc"]
  IN /\ Len(d.bursts) = 2
     /\ d.th = 2
     /\ d.events = <<>>
     /\ Len(log) = 4
     /\ \A i \in 1..Len(log) : IsDeauth(log[i].pkt)
     /\ log[4].ts - log[1].ts <= d.win

\* ---- EvilTwinHeuristic
\* The name "Cafe".
Cafe == <<67, 97, 102, 101>>

\* A beacon or probe response of name `name` on channel chan (NoneInt: no DS
\* parameter element), with an RSN element when rsn.
Sighting(layer, src, name, chan, rsn) ==
  Mgmt(layer, 8, src,
       <<SsidElt(name)>>
       \o (IF chan = NoneInt THEN <<>> ELSE <<Elt(3, <<chan>>)>>)
       \o (IF rsn THEN <<Elt(48, <<1>>)>> ELSE <<>>))

EvilTwinFrames ==
  {Sighting("Dot11Beacon", "aa:01", Cafe, 1, FALSE),
   Sighting("Dot11Beacon", "aa:02", Cafe, 1, TRUE),
   Sighting("Dot11ProbeResp", "aa:01", Cafe, 6, FALSE),
   Sighting("Dot11Beacon", "aa:01", Cafe, NoneInt, FALSE),
   Sighting("Dot11Beacon", "aa:03", <<66>>, 1, TRUE),
   Sighting("Dot11ProbeResp", "aa:03", <<66>>, 6, TRUE),
   Sighting("Dot11Beacon", "aa:03", <<>>, 6, TRUE),
   Mgmt("Dot11ProbeReq", 4, "cc:01", <<SsidElt(Cafe)>>)}

InitEvilTwin == InitFeed([n \in {"EvilTwinHeuristic"} |-> EvilTwinInit], {TRUE})

NextEvilTwin == Feed(EvilTwinFrames, {0}, MaxEvilTwinFrames) \/ FinalizeAll

SpecEvilTwin == InitEvilTwin /\ [][NextEvilTwin]_vars

\* What on_packet reads from a packet: name, channel and security class.
Seen(pkt) == EvilTwinWalk(pkt.elts, [ssid |-> NoneStr, chan |-> NoneInt, sec |-> "Open"])

IsSighting(pkt) ==
  /\ haslayer(pkt, "Dot11Beacon") \/ haslayer(pkt, "Dot11ProbeResp")
  /\ Truthy(pkt.addr2)
  /\ Seen(pkt).ssid # NoneStr

\* The positions in the log of the sightings of a name.
SightingsOf(name) == {i \in 1..Len(log) : IsSighting(log[i].pkt) /\ Seen(log[i].pkt).ssid = name}

\* C4: after finalize, a name is in suspected_evil_twins exactly when its
\* sightings hold both the class Open and a non-open class, or number at least
\* 2 and span at least 2 distinct channels; it is there once, with reason
\* "open+secure mismatch" whenever the Open/non-open mix holds.
C4_EvilTwinVerdict ==
  pc = "done" =>
    LET res == ret["EvilTwinHeuristic"].suspected_evil_twins
        names == {Seen(log[i].pkt).ssid : i \in {j \in 1..Len(log) : IsSighting(log[j].pkt)}}
    IN /\ \A k \in 1..Len(res) : res[k].ssid \in names
       /\ \A name \in names :
            LET S == SightingsOf(name)
                mix == /\ \E i \in S : Seen(log[i].pkt).sec = "Open"
                       /\ \E i \in S : Seen(log[i].pkt).sec # "Open"
                span == /\ Cardinality(S) >= 2
                        /\ Cardinality({Seen(log[i].pkt).chan : i \in S} \ {NoneInt}) >= 2
                hits == {k \in 1..Len(res) : res[k].ssid = name}
            IN /\ hits # {} <=> (mix \/ span)
               /\ Cardinality(hits) <= 1
               /\ mix => \A k \in hits : res[k].reason = "open+secure mismatch"
               /\ ~mix => \A k \in hits : res[k].reason = "channel discrepancy"

\* "Cafe" was seen once Open and once with RSN, on one channel, and finalize
\* returned exactly one suspect, with the reason "open+secure mismatch".
C4_Witness ==
  /\ pc = "done"
  /\ Len(log) = 2
  /\ SightingsOf(Cafe) = {1, 2}
  /\ {Seen(log[i].pkt).sec : i \in {1, 2}} = {"Open", "RSN"}
  /\ {Seen(log[i].pkt).chan : i \in {1, 2}} = {1}
  /\ ret["EvilTwinHeuristic"].suspected_evil_twins =
       <<[ssid |-> Cafe, reason |-> "open+secure mismatch"]>>

\* The sightings of a name with one BSSID in place of each.
OneBssid(lst) == [i \in 1..Len(lst) |-> [lst[i] EXCEPT !.bssid = "aa:00"]]

\* C36: every sighting of a name is one entry of its list, in the order
\* seen, repeated beacons included; the verdict on the name is the verdict on
\* the same classes and channels under a single BSSID; and a name one BSSID
\* advertised is a suspect when its sightings span two channels or mix Open
\* and non-open.
C36_VerdictIgnoresBssid ==
  pc = "done" =>
    LET ssids == ret["EvilTwinHeuristic"].ssids
        res == ret["EvilTwinHeuristic"].suspected_evil_twins
    IN \A k \in 1..Len(ssids) :
         LET name == ssids[k].key
             lst == ssids[k].val
             seen == SelectSeq(log, LAMBDA e : IsSighting(e.pkt) /\ Seen(e.pkt).ssid = name)
             verdict == IF \E j \in 1..Len(res) : res[j].ssid = name
                          THEN (CHOOSE r \in Range(res) : r.ssid = name).reason
                        ELSE ""
             single == Cardinality({lst[i].bssid : i \in 1..Len(lst)}) = 1
         IN /\ lst = [i \in 1..Len(seen) |->
                       [bssid |-> Lower(seen[i].pkt.addr2), chan |-> Seen(seen[i].pkt).chan,
                        sec |-> Seen(seen[i].pkt).sec]]
            /\ verdict = EvilTwinVerdict(OneBssid(lst))
            /\ (single /\ Cardinality(ChansOf(lst)) >= 2) => verdict # ""
            /\ (single /\ "Open" \in SecsOf(lst) /\ SecsOf(lst) # {"Open"})
                 => verdict = "open+secure mismatch"

\* One access point sent the same beacon twice, then a probe response on
\* another channel: three sightings, and the name is a suspect.
C36_Witness ==
  /\ pc = "done"
  /\ Len(log) = 3
  /\ log[1].pkt = Sighting("Dot11Beacon", "aa:01", Cafe, 1, FALSE)
  /\ log[2].pkt = log[1].pkt
  /\ log[3].pkt = Sighting("Dot11ProbeResp", "aa:01", Cafe, 6, FALSE)
  /\ Len(ret["EvilTwinHeuristic"].ssids[1].val) = 3
  /\ ret["EvilTwinHeuristic"].suspected_evil_twins =
       <<[ssid |-> Cafe, reason |-> "channel discrepancy"]>>

\* ---- ProbePrivacy
ProbeReq(sta, name) == Mgmt("Dot11ProbeReq", 4, sta, <<SsidElt(name)>>)

\* Five names that differ after decoding, one that decodes like the first, the
\* wildcard, and a second station.
ProbeFrames ==
  {ProbeReq("cc:01", <<n>>) : n \in 65..69}
  \cup {ProbeReq("cc:01", <<65, 200>>), ProbeReq("cc:01", <<>>), ProbeReq("AA:01", <<200, 66>>)}

InitProbe == InitFeed([n \in {"ProbePrivacy"} |-> ProbePrivacyInit], {TRUE})

NextProbe == Feed(ProbeFrames, {0}, MaxProbeFrames) \/ FinalizeAll

SpecProbe == InitProbe /\ [][NextProbe]_vars

IsProbeReq(pkt) == haslayer(pkt, "Dot11ProbeReq")

\* The distinct non-empty names a station requested, as decoded.
NamesRequested(sta) ==
  {_ascii_printable(e.info) :
     e \in UNION {Range(log[i].pkt.elts) :
                    i \in {j \in 1..Len(log) :
                             IsProbeReq(log[j].pkt) /\ _addr_lower(log[j].pkt.addr2) = sta}}}
  \ {NoneStr}

\* C5: after finalize, a station is listed in clients_with_large_pnl exactly
\* when it requested at least 5 distinct non-empty names (so not with 4,
\* however often each was requested); it is listed once and the count is the
\* number of its distinct names.
C5_LargePnlThreshold ==
  pc = "done" =>
    LET big == ret["ProbePrivacy"].clients_with_large_pnl
        stas == {_addr_lower(log[i].pkt.addr2) : i \in 1..Len(log)}
    IN /\ \A k \in 1..Len(big) : big[k].sta \in stas
       /\ \A sta \in stas :
            LET hits == {k \in 1..Len(big) : big[k].sta = sta}
            IN /\ hits # {} <=> Cardinality(NamesRequested(sta)) >= 5
               /\ Cardinality(hits) <= 1
               /\ \A k \in hits : big[k].count = Cardinality(NamesRequested(sta))

\* A station that requested exactly 5 distinct names is listed with count 5.
C5_Witness ==
  /\ pc = "done"
  /\ Cardinality(NamesRequested("cc:01")) = 5
  /\ ret["ProbePrivacy"].clients_with_large_pnl = <<[sta |-> "cc:01", count |-> 5]>>

\* ---- the five analyzers together, finalize called at any time
\* An EAPOL-Key data frame from src to dst.
EapolKey(dst, src, key_info, replay) ==
  [Dot11Pkt({"Dot11QoS", "EAPOL", "WPA_key"}, 2, 8, dst, src, src, <<>>)
     EXCEPT !.key = WpaKey(key_info, <<0>>, replay, <<0>>, <<171>>)]

MixedFrames ==
  {Mgmt("Dot11Deauth", 12, "aa:01", <<>>),
   Sighting("Dot11Beacon", "aa:01", Cafe, 1, FALSE),
   Sighting("Dot11Beacon", "AA:01", Cafe, 6, TRUE),
   ProbeReq("cc:01", Cafe),
   EapolKey("cc:01", "aa:01", 128, 1),
   EapolKey("aa:01", "cc:01", 256, 1)}

AllAnalyzers ==
  [n \in AnalyzerNames |->
     IF n = "DeauthDisassoc" THEN DeauthDisassocInit(burst_window_s, burst_threshold)
     ELSE NewAnalyzer(n)]

InitDetectors == InitFeed(AllAnalyzers, BOOLEAN)

NextDetectors == Feed(MixedFrames, {0, 1}, MaxDetFrames) \/ FinalizeOne

SpecDetectors == InitDetectors /\ [][NextDetectors]_vars

\* The state of the twin of analyzer n: an instance fed the same packets at
\* the same readings, on which finalize was never called.
RECURSIVE Twin(_, _, _)
Twin(n, start, entries) ==
  IF entries = <<>> THEN start
  ELSE Twin(n, on_packet(n, start, Head(entries).pkt, Head(entries).ts, WPA_key),
            Tail(entries))

\* C8: finalize is pure for each of the five analyzers.  After any interleaving
\* of on_packet and finalize calls the analyzer is in the state of its twin
\* that was never finalized, and every finalize call made since the last
\* on_packet (one call or several) returned what the twin's finalize would
\* return.
C8_FinalizePure ==
  /\ \A n \in DOMAIN det : det[n] = Twin(n, AllAnalyzers[n], log)
  /\ \A n \in DOMAIN ret : ret[n] = finalize(n, Twin(n, AllAnalyzers[n], log)).ret

\* finalize was called on WeakSecurity in the middle of a stream, after a
\* beacon, and returned the AP.
C8_Witness ==
  /\ pc = "feed"
  /\ "WeakSecurity" \in DOMAIN ret
  /\ Len(ret["WeakSecurity"].aps) = 1
  /\ Len(log) >= 1

\* ------------------------------------------------- smart_analyze_pcap
\* The frames of the captures analysed: undecodable bytes, a radiotap header
\* with nothing behind it, and four 802.11 frames, one of them captured
\* without radiotap header.
RunFrames ==
  {RawGarbage,
   RawOf(RadioTapOnly),
   RawOf(Sighting("Dot11Beacon", "aa:01", Cafe, 1, FALSE)),
   RawDirect(ProbeReq("cc:01", Cafe)),
   RawOf(Mgmt("Dot11Deauth", 12, "aa:01", <<>>)),
   RawOf(Dot11Pkt({"Dot11AssoReq", "Dot11Elt"}, 0, 0, "aa:01", "cc:01", "aa:01",
                  <<SsidElt(Cafe)>>))}

\* The analyzers of manual mode, in the order of the list.
ManualAnalyzers == <<"DeauthDisassoc", "EvilTwinHeuristic", "ProbePrivacy", "WeakSecurity">>

\* The deep dives that open the file again, each with its own reader.
DeepDives == {"association", "access_points"}

\* smart_analyze_pcap(path, auto_select_analyzers) is called on a capture
\* file; input.unreadable names the deep dives whose reader will fail to
\* open the file.
InitRun ==
  /\ JobIdle
  /\ pc = "pass1"
  /\ \E n \in 0..MaxCapture : capture \in [1..n -> RunFrames]
  /\ input \in [auto_select_analyzers : BOOLEAN, unreadable : SUBSET DeepDives]
  /\ output = None
  /\ idx = 0 /\ stats = BasicStatsInit /\ profile = NoProfile /\ selected = <<>>
  /\ det = <<>> /\ ret = <<>> /\ clock = 0 /\ log = <<>>
  /\ WPA_key = TRUE

Instantiate_reusing(old, names) ==
  [n \in names |-> IF n \in DOMAIN old THEN old[n] ELSE NewAnalyzer(n)]

\* analyzer_map[analyzer_name](): one constructor call per analyzer selected.
\* The instances an earlier call created (old) are not looked at.
Instantiate(old, names) == [n \in names |-> NewAnalyzer(n)]

\* Phase 1: the next frame of the file.
RunPass1Frame == idx < Len(capture) /\ Pass1Read(capture[idx + 1])

\* Phase 2 and the head of phase 3: the reader of pass 1 is exhausted, the
\* traffic is profiled and the analyzers are instantiated.
RunProfile ==
  /\ pc = "pass1"
  /\ idx = Len(capture)
  /\ profile' = analyze_traffic_profile(stats.frame_mix, stats.total_packets)
  /\ selected' = IF input.auto_select_analyzers
                   THEN _select_analyzers_from_profile(profile')
                 ELSE ManualAnalyzers
  /\ det' = Instantiate(det, Range(selected'))
  /\ idx' = 0
  /\ pc' = "pass2"
  /\ UNCHANGED <<fnVars, jobVars, capture, stats, ret, clock, WPA_key, log>>

\* One iteration of the loop of _run_selected_analyzers.
RunPass2Frame ==
  /\ pc = "pass2"
  /\ idx < Len(capture)
  /\ LET pkt == safe_dot11_decode(capture[idx + 1])
     IN IF pkt = Raised
          THEN pc' = "aborted" /\ UNCHANGED <<idx, det, clock, log>>
        ELSE IF pkt = NonePkt \/ ~haslayer(pkt, "Dot11")
          THEN pc' = pc /\ idx' = idx + 1 /\ UNCHANGED <<det, clock, log>>
        ELSE \E dt \in {0, 1} :
               /\ pc' = pc /\ idx' = idx + 1
               /\ clock' = clock + dt
               /\ det' = FeedAll(det, pkt, clock', WPA_key)
               /\ log' = Append(log, [ts |-> clock', pkt |-> pkt])
  /\ UNCHANGED <<fnVars, jobVars, capture, stats, profile, selected, ret, WPA_key>>

\* The end of _run_selected_analyzers: every analyzer's finalize, keyed by
\* class name.
RunFinalize ==
  /\ pc = "pass2"
  /\ idx = Len(capture)
  /\ ret' = [n \in DOMAIN det |-> finalize(n, det[n]).ret]
  /\ det' = [n \in DOMAIN det |-> finalize(n, det[n]).self]
  /\ pc' = "phase4"
  /\ UNCHANGED <<fnVars, jobVars, capture, idx, stats, profile, selected, clock, WPA_key, log>>

\* None of a deep-dive section.
AbsentSection == [absent |-> TRUE]

\* The frames of the file a deep dive counts under one category.
CountCategory(tag) ==
  Cardinality({i \in 1..Len(capture) :
                 /\ safe_dot11_decode(capture[i]) # NonePkt
                 /\ _categorize_802_11_frame(safe_dot11_decode(capture[i])) = tag})

\* analyze_association_requests(path): its counters, or the exception of a
\* reader that cannot open the file.
analyze_association_requests ==
  IF "association" \in input.unreadable THEN Raised
  ELSE [total_processed |-> Len(capture), assoc_req_count |-> CountCategory("assoc_req")]

\* bytes.decode('utf-8', errors='replace'): every invalid byte becomes U+FFFD
\* (the byte strings of the model hold no valid multi-byte sequence).
DecodeReplace(b) == [i \in 1..Len(b) |-> IF b[i] < 128 THEN b[i] ELSE 65533]

\* "<hidden>" and "<empty>"
HiddenName == <<60, 104, 105, 100, 100, 101, 110, 62>>

EmptyName == <<60, 101, 109, 112, 116, 121, 62>>

\* pat in s, for strings
Contains(s, pat) == \E i \in 0..(Len(s) - Len(pat)) : SubSeq(s, i + 1, i + Len(pat)) = pat

\* The hex digits of the AKM suite 00-0f-ac-n.
AkmSuite(n) == <<0, 0, 0, 15, 10, 12, 0, n>>

\* beacon.cap; scapy gives the field to every beacon, 0 when no bit is set.
Cap(pkt) == IF "cap" \in DOMAIN pkt THEN pkt.cap ELSE 0

\* The walk of extract_beacon_details over the Dot11Elt chain: every element
\* overwrites what an earlier element of its id set.  security is the set of
\* the flags that are True.
RECURSIVE BeaconWalk(_, _)
BeaconWalk(elts, d) ==
  IF elts = <<>> THEN d
  ELSE LET e == Head(elts)
           info == e.info
           next ==
             IF e.ID = 0 THEN
               [d EXCEPT !.ssid = IF info # <<>>
                                    THEN IF Strip(DecodeReplace(info)) # <<>>
                                           THEN DecodeReplace(info) ELSE EmptyName
                                  ELSE HiddenName]
             ELSE IF e.ID = 3 /\ Len(info) >= 1 THEN [d EXCEPT !.channel = info[1]]
             ELSE IF e.ID = 48 THEN
               [d EXCEPT !.security =
                  ((@ \cup {"wpa2"}) \ {"wep"})
                  \cup (IF Len(info) >= 8 /\ Contains(Hex(info), AkmSuite(1))
                          THEN {"enterprise"} ELSE {})
                  \cup (IF Len(info) >= 8 /\ Contains(Hex(info), AkmSuite(8))
                          THEN {"wpa3"} ELSE {})]
             ELSE IF e.ID = 45 THEN [d EXCEPT !.ht_info = [present |-> TRUE]]
             ELSE IF e.ID = 191 THEN [d EXCEPT !.vht_info = [present |-> TRUE]]
             ELSE IF e.ID = 255 /\ Len(info) >= 1 THEN
               IF info[1] = 35 THEN [d EXCEPT !.he_info = [present |-> TRUE]] ELSE d
             ELSE IF e.ID = 221 /\ Len(info) >= 3 THEN
               IF SubSeq(info, 1, 3) = <<0, 80, 242>> /\ Len(info) > 3 /\ info[4] = 1
                 THEN [d EXCEPT !.security = (@ \cup {"wpa"}) \ {"wep"}]
               ELSE d
             ELSE d
       IN BeaconWalk(Tail(elts), next)

\* extract_beacon_details(pkt): None for a packet with no beacon layer, else
\* the details dict with the keys the records and the score are computed from
\* (rates, country, vendor names and the fingerprint are left out).
NoDetails == [kind |-> "None"]

extract_beacon_details(pkt) ==
  IF pkt = NonePkt \/ ~haslayer(pkt, "Dot11Beacon") THEN NoDetails
  ELSE LET privacy == (Cap(pkt) \div 16) % 2 = 1
       IN BeaconWalk(pkt.elts,
            [kind |-> "details", bssid |-> pkt.addr2, ssid |-> NoneStr,
             channel |-> NoneInt,
             capabilities |-> [privacy |-> privacy,
                               spectrum_mgmt |-> (Cap(pkt) \div 256) % 2 = 1],
             security |-> IF privacy THEN {"wep"} ELSE {"open"},
             ht_info |-> [present |-> FALSE], vht_info |-> [present |-> FALSE],
             he_info |-> [present |-> FALSE]])

\* _assess_ap_security(details)["overall_score"]
_assess_ap_security(details) ==
  LET security == details.security
      base == IF "wpa3" \in security THEN 40
              ELSE IF "wpa2" \in security THEN 30
              ELSE IF "wpa" \in security THEN 15
              ELSE IF "wep" \in security THEN 5
              ELSE 0
      enterprise == IF "enterprise" \in security THEN 20 ELSE 0
      privacy == IF details.capabilities.privacy THEN 10 ELSE 0
      modern == IF details.he_info.present THEN 15
                ELSE IF details.vht_info.present THEN 10 ELSE 0
      mgmt == IF details.capabilities.spectrum_mgmt THEN 5 ELSE 0
      score == base + enterprise + privacy + modern + mgmt
  IN [overall_score |-> IF score < 100 THEN score ELSE 100]

\* The body of the loop of analyze_access_points for a beacon whose details
\* hold a BSSID: the record of the key is created if there is none, then
\* updated.  A security state is the set of the flags that are True (the
\* source joins their sorted names).
AccessPointUpdate(access_points, bssid, count, details) ==
  LET ap == IF DictHas(access_points, bssid) THEN DictGet(access_points, bssid)
            ELSE [bssid |-> bssid, ssid |-> details.ssid,
                  first_seen |-> count, last_seen |-> count, beacon_count |-> 0,
                  details |-> details, channels_seen |-> {}, ssids_seen |-> {},
                  security_evolution |-> <<>>]
      current_security == details.security
      evolution == ap.security_evolution
  IN DictSet(access_points, bssid,
       [ap EXCEPT
          !.last_seen = count,
          !.beacon_count = @ + 1,
          !.channels_seen = IF details.channel # NoneInt /\ details.channel # 0
                              THEN @ \cup {details.channel} ELSE @,
          !.ssids_seen = IF details.ssid \notin {NoneStr, <<>>, HiddenName, EmptyName}
                           THEN @ \cup {details.ssid} ELSE @,
          !.security_evolution =
             IF evolution = <<>> \/ evolution[Len(evolution)] # current_security
               THEN Append(@, current_security) ELSE @,
          !.details = details])

AccessPointsFrame_decoded_only(st, raw) ==
  LET pkt == safe_dot11_decode(raw)
      read == [st EXCEPT !.total_processed = @ + 1]
  IN IF pkt = NonePkt THEN st
     ELSE IF _categorize_802_11_frame(pkt) # "beacon" THEN read
     ELSE LET count == st.beacon_count + 1
              counted == [read EXCEPT !.beacon_count = count]
              details == extract_beacon_details(pkt)
          IN IF details = NoDetails \/ ~Truthy(details.bssid) THEN counted
             ELSE [counted EXCEPT !.access_points =
                     AccessPointUpdate(@, Lower(details.bssid), count, details)]

AccessPointsFrame_cased(st, raw) ==
  LET pkt == safe_dot11_decode(raw)
      read == [st EXCEPT !.total_processed = @ + 1]
  IN IF pkt = NonePkt THEN read
     ELSE IF _categorize_802_11_frame(pkt) # "beacon" THEN read
     ELSE LET count == st.beacon_count + 1
              counted == [read EXCEPT !.beacon_count = count]
              details == extract_beacon_details(pkt)
          IN IF details = NoDetails \/ ~Truthy(details.bssid) THEN counted
             ELSE [counted EXCEPT !.access_points =
                     AccessPointUpdate(@, details.bssid, count, details)]

\* One turn of the loop of analyze_access_points: the frame is counted, a
\* beacon is counted, and a beacon whose details hold a BSSID creates the
\* record of that BSSID (lower-cased) if there is none and updates it.
AccessPointsFrame(st, raw) ==
  LET pkt == safe_dot11_decode(raw)
      read == [st EXCEPT !.total_processed = @ + 1]
  IN IF pkt = NonePkt THEN read
     ELSE IF _categorize_802_11_frame(pkt) # "beacon" THEN read
     ELSE LET count == st.beacon_count + 1
              counted == [read EXCEPT !.beacon_count = count]
              details == extract_beacon_details(pkt)
          IN IF details = NoDetails \/ ~Truthy(details.bssid) THEN counted
             ELSE [counted EXCEPT !.access_points =
                     AccessPointUpdate(@, Lower(details.bssid), count, details)]

RECURSIVE AccessPointsLoop(_)
AccessPointsLoop(frames) ==
  IF frames = <<>>
    THEN [access_points |-> <<>>, beacon_count |-> 0, total_processed |-> 0]
  ELSE AccessPointsFrame(AccessPointsLoop(SubSeq(frames, 1, Len(frames) - 1)),
                         frames[Len(frames)])

\* The derived data analyze_access_points adds to a record after the loop.
AccessPointDerived(ap) ==
  [bssid |-> ap.bssid, ssid |-> ap.ssid, first_seen |-> ap.first_seen,
   last_seen |-> ap.last_seen, beacon_count |-> ap.beacon_count,
   details |-> ap.details, channels_seen |-> ap.channels_seen,
   ssids_seen |-> ap.ssids_seen, security_evolution |-> ap.security_evolution,
   analysis |-> [channel_hopping |-> Cardinality(ap.channels_seen) > 1,
                 ssid_changes |-> Cardinality(ap.ssids_seen) > 1,
                 security_changes |-> Len(ap.security_evolution) > 1],
   security_assessment |-> _assess_ap_security(ap.details)]

\* The entries of insights["suspicious_behaviors"] of one behaviour, in the
\* order of the records.
Behaviors(aps, name, Test(_)) ==
  LET hit == SelectSeq(aps, LAMBDA e : Test(e.val))
  IN [k \in 1..Len(hit) |-> [ap |-> hit[k].key, behavior |-> name]]

\* What analyze_access_points returns for the frames of a file (the
\* distributions over channels, standards and vendors left out).
AccessPointsResult(frames) ==
  LET st == AccessPointsLoop(frames)
      aps == [k \in 1..Len(st.access_points) |->
                [key |-> st.access_points[k].key,
                 val |-> AccessPointDerived(st.access_points[k].val)]]
  IN [total_processed |-> st.total_processed,
      beacon_count |-> st.beacon_count,
      unique_aps |-> Len(aps),
      access_points |-> aps,
      suspicious_behaviors |->
        Behaviors(aps, "Channel hopping", LAMBDA ap : ap.analysis.channel_hopping)
        \o Behaviors(aps, "SSID changes", LAMBDA ap : ap.analysis.ssid_changes)
        \o Behaviors(aps, "Security changes", LAMBDA ap : ap.analysis.security_changes)]

\* analyze_access_points(path): its result, or the exception of a reader
\* that cannot open the file.
analyze_access_points ==
  IF "access_points" \in input.unreadable THEN Raised
  ELSE AccessPointsResult(capture)

DeepDiveSection_uncaught(count, built) == IF count > 0 THEN built ELSE AbsentSection

\* try: if frame_mix.get(tag, 0) > 0: section = builder(path)
\* except Exception: section = None
DeepDiveSection(count, built) ==
  IF count > 0 /\ built # Raised THEN built ELSE AbsentSection

\* duration_ms = round((perf_counter() - t0) * 1000.0, 2), then phase 4: the
\* association deep dive.  t0 is reading 0 of the clock; a deep dive that is
\* called reads the file, which takes time.
RunAssociation ==
  /\ pc = "phase4"
  /\ LET count == Get(stats.frame_mix, "assoc_req", 0)
         section == DeepDiveSection(count, analyze_association_requests)
     IN /\ clock' = IF count > 0 THEN clock + 1 ELSE clock
        /\ IF section = Raised THEN pc' = "aborted" /\ output' = output
           ELSE /\ pc' = "phase5"
                /\ output' = [duration_ms |-> clock, association_analysis |-> section]
  /\ UNCHANGED <<input, runVars, det, ret, WPA_key, log, jobVars>>

\* Phase 5: the access-point deep dive, and the dict returned
\* (analyzer_selection, which no other key depends on, left out).
RunAccessPoints ==
  /\ pc = "phase5"
  /\ LET count == Get(stats.frame_mix, "beacon", 0)
         section == DeepDiveSection(count, analyze_access_points)
     IN /\ clock' = IF count > 0 THEN clock + 1 ELSE clock
        /\ IF section = Raised THEN pc' = "aborted" /\ output' = output
           ELSE
             /\ pc' = "done"
             /\ output' = [total_packets |-> BasicStatsResult(stats).total_packets,
                           duration_ms |-> output.duration_ms,
                           unique_devices |-> BasicStatsResult(stats).unique_devices,
                           unique_aps |-> BasicStatsResult(stats).unique_aps,
                           unique_clients |-> BasicStatsResult(stats).unique_clients,
                           ssid_count |-> BasicStatsResult(stats).ssid_count,
                           frame_mix |-> BasicStatsResult(stats).frame_mix,
                           traffic_profile |-> profile,
                           selected_analyzers |-> selected,
                           association_analysis |-> output.association_analysis,
                           access_point_analysis |-> section,
                           details |-> ret]
  /\ UNCHANGED <<input, runVars, det, ret, WPA_key, log, jobVars>>

NextRun ==
  RunPass1Frame \/ RunProfile \/ RunPass2Frame \/ RunFinalize \/ RunAssociation
  \/ RunAccessPoints

SpecRun == InitRun /\ [][NextRun]_vars

\* Whether both decodes of a raw frame fail.
DecodeFails(raw) == raw.RadioTap = Raised /\ raw.Dot11 = Raised

\* The positions among the first n frames of the capture that hold an 802.11
\* header once decoded.
Dot11Positions(n) ==
  {i \in 1..n : ~DecodeFails(capture[i])
                /\ "Dot11" \in (IF capture[i].RadioTap # Raised THEN capture[i].RadioTap
                                ELSE capture[i].Dot11).layers}

\* The frames read so far by pass 2.
Pass2Read == IF pc = "pass1" THEN 0 ELSE IF pc = "pass2" THEN idx ELSE Len(capture)

\* C10: a frame neither decode can parse never aborts a pass.  No pass ends
\* on an exception; pass 1 counts every frame it read in total_packets,
\* failed decodes included, and classifies every frame that decoded (one
\* frame_mix count each); pass 2 hands the analyzers exactly the frames with
\* an 802.11 header, those after a failed frame included, and nothing else.
C10_DecodeFailureNeverAborts ==
  /\ pc # "aborted"
  /\ stats.total_packets = (IF pc = "pass1" THEN idx ELSE Len(capture))
  /\ FrameMixSum =
       Cardinality({i \in 1..stats.total_packets : ~DecodeFails(capture[i])})
  /\ Len(log) = Cardinality(Dot11Positions(Pass2Read))
  /\ \A k \in 1..Len(log) :
       \E i \in Dot11Positions(Pass2Read) :
         /\ Cardinality({j \in Dot11Positions(Pass2Read) : j <= i}) = k
         /\ log[k].pkt = safe_dot11_decode(capture[i])
  /\ \A n \in DOMAIN det : det[n] = Twin(n, NewAnalyzer(n), log)

\* A capture whose first frame fails both decodes and whose second frame is a
\* beacon was analysed to the end, and the beacon reached the analyzers.
C10_Witness ==
  /\ pc = "done"
  /\ Len(capture) >= 2
  /\ DecodeFails(capture[1])
  /\ haslayer(safe_dot11_decode(capture[2]), "Dot11Beacon")
  /\ Len(log) >= 1
  /\ stats.total_packets = Len(capture)

\* ------------------------------------------------- the analyzer selection
\* The suggestions a ranked list is made of: four analyzers at each priority.
Suggestions ==
  {Suggest(a, p) : a \in {"DeauthDisassoc", "EvilTwinHeuristic", "ProbePrivacy", "WeakSecurity"},
                   p \in {"high", "medium", "low"}}

\* _select_analyzers_from_profile is about to be called on a profile result
\* that holds any ranked list of suggestions.
InitSelect ==
  /\ JobIdle
  /\ pc = "select"
  /\ \E n \in 0..MaxSuggestions :
       input \in [analyzer_suggestions : [1..n -> Suggestions]]
  /\ output = None
  /\ RunIdle /\ DetIdle

Select ==
  /\ pc = "select"
  /\ output' = _select_analyzers_from_profile(input)
  /\ pc' = "done"
  /\ UNCHANGED <<input, runVars, detVars, jobVars>>

NextSelect == Select

SpecSelect == InitSelect /\ [][NextSelect]_vars

\* The analyzers suggested at one priority, in ranked order.
SuggestedAt(prio) ==
  LET of == SelectSeq(input.analyzer_suggestions, LAMBDA sg : sg.priority = prio)
  IN [i \in 1..Len(of) |-> of[i].analyzer]

\* Mediums are added in ranked order, duplicates skipped, only while fewer
\* than three analyzers are selected.
RECURSIVE AddWhileBelowFloor(_, _)
AddWhileBelowFloor(analyzers, mediums) ==
  IF mediums = <<>> \/ Len(analyzers) >= 3 THEN analyzers
  ELSE IF Head(mediums) \in Range(analyzers)
    THEN AddWhileBelowFloor(analyzers, Tail(mediums))
  ELSE AddWhileBelowFloor(Append(analyzers, Head(mediums)), Tail(mediums))

\* C11: for every ranked suggestion list the selection holds every high
\* suggestion, followed by the medium suggestions in ranked order, duplicates
\* skipped, added only while fewer than three analyzers are selected (the
\* default applies when nothing was selected).
C11_SelectorFloor ==
  pc = "done" =>
    LET want == AddWhileBelowFloor(SuggestedAt("high"), SuggestedAt("medium"))
    IN /\ \A a \in Range(SuggestedAt("high")) : a \in Range(output)
       /\ output = (IF want = <<>> THEN <<"WeakSecurity">> ELSE want)

\* C12: every analyzer selected is suggested at priority high or medium, or
\* is the WeakSecurity default of a selection that would otherwise be empty;
\* a suggestion of priority low selects nothing.
C12_LowNeverSelected ==
  pc = "done" =>
    \A a \in Range(output) :
      \/ a \in Range(SuggestedAt("high")) \cup Range(SuggestedAt("medium"))
      \/ /\ output = <<"WeakSecurity">>
         /\ SuggestedAt("high") = <<>> /\ SuggestedAt("medium") = <<>>

\* A list that suggests ProbePrivacy at priority low only, next to a medium
\* suggestion, was selected from and ProbePrivacy was left out.
C12_Witness ==
  /\ pc = "done"
  /\ "ProbePrivacy" \in Range(SuggestedAt("low"))
  /\ "ProbePrivacy" \notin Range(SuggestedAt("high")) \cup Range(SuggestedAt("medium"))
  /\ SuggestedAt("medium") # <<>>
  /\ "ProbePrivacy" \notin Range(output)

\* C13: the selection is never empty, and a list with no high and no medium
\* suggestion selects exactly WeakSecurity; so does the profile result of a
\* capture with zero packets.
C13_NeverEmpty ==
  /\ pc = "done" =>
       /\ output # <<>>
       /\ (SuggestedAt("high") = <<>> /\ SuggestedAt("medium") = <<>>)
            => output = <<"WeakSecurity">>
  /\ _select_analyzers_from_profile(analyze_traffic_profile(<<>>, 0)) = <<"WeakSecurity">>

\* A list of low suggestions only was selected from.
C13_Witness ==
  /\ pc = "done"
  /\ SuggestedAt("low") # <<>>
  /\ SuggestedAt("high") = <<>> /\ SuggestedAt("medium") = <<>>
  /\ output = <<"WeakSecurity">>

\* ------------------------------------------------- the order of the phases
\* C24: the phases run in the order pass 1, profiler and selector, pass 2,
\* deep dives, assembly, each after the one before it has finished: the
\* profile is computed once pass 1 has read the whole file; no analyzer
\* exists, and none has seen a frame, before the selection; the set of
\* analyzers does not change once pass 2 has begun; and the duration in the
\* result is the time elapsed when the result is assembled, after the deep
\* dives.
C24_PhaseOrder ==
  [][/\ \/ pc' = pc
        \/ pc = "pass1" /\ pc' = "pass2" /\ idx = Len(capture)
        \/ pc = "pass2" /\ pc' = "phase4" /\ idx = Len(capture)
        \/ pc = "phase4" /\ pc' = "phase5"
        \/ pc = "phase5" /\ pc' = "done"
     /\ pc = "pass1" => det = <<>> /\ log = <<>> /\ profile = NoProfile
     /\ pc # "pass1" => selected' = selected /\ DOMAIN det' = DOMAIN det
     /\ pc' = "done" => output'.duration_ms = clock']_vars

\* ------------------------------------------------- manual mode
\* C14: with automatic selection disabled the analyzers that run are the
\* five of the framework, whatever the traffic profile, and each of them has
\* an entry in the results.
C14_ManualRunsAllFive ==
  (pc = "done" /\ ~input.auto_select_analyzers) =>
     /\ Range(selected) = AnalyzerNames
     /\ DOMAIN ret = AnalyzerNames

\* ------------------------------------------- run_analyzers_over_stream
\* An Analyzer subclass that raises: in on_packet on a deauthentication frame
\* (mode "on_packet"), in finalize (mode "finalize"), or never.
FaultyInit(mode) == [mode |-> mode, seen |-> 0]

Faulty_on_packet(f, pkt) ==
  IF f.mode = "on_packet" /\ haslayer(pkt, "Dot11Deauth") THEN Raised
  ELSE [f EXCEPT !.seen = @ + 1]

Faulty_finalize(f) == IF f.mode = "finalize" THEN Raised ELSE [seen |-> f.seen]

\* for a in analyzers: a.on_packet(pkt).  Nothing catches an exception of
\* on_packet: the analyzers behind the one that raises are not called.
RECURSIVE OnPacketInOrder(_, _, _, _)
OnPacketInOrder(order, d, pkt, ts) ==
  IF order = <<>> THEN [det |-> d, raised |-> FALSE]
  ELSE LET n == Head(order)
           next == IF n = "Faulty" THEN Faulty_on_packet(d[n], pkt)
                   ELSE on_packet(n, d[n], pkt, ts, WPA_key)
       IN IF next = Raised THEN [det |-> d, raised |-> TRUE]
          ELSE OnPacketInOrder(Tail(order), [d EXCEPT ![n] = next], pkt, ts)

\* for a in analyzers: out[a.__class__.__name__] = a.finalize()
RECURSIVE FinalizeInOrder(_, _, _)
FinalizeInOrder(order, d, out) ==
  IF order = <<>> THEN [out |-> out, raised |-> FALSE]
  ELSE LET n == Head(order)
           r == IF n = "Faulty" THEN Faulty_finalize(d[n]) ELSE finalize(n, d[n]).ret
       IN IF r = Raised THEN [out |-> out, raised |-> TRUE]
          ELSE FinalizeInOrder(Tail(order), d, [m \in DOMAIN out \cup {n} |->
                                                  IF m = n THEN r ELSE out[m]])

\* The analyzers whose on_packet that loop calls for one packet, in order.
RECURSIVE CalledInOrder(_, _, _)
CalledInOrder(order, d, pkt) ==
  IF order = <<>> THEN <<>>
  ELSE LET n == Head(order)
       IN IF n = "Faulty" /\ Faulty_on_packet(d[n], pkt) = Raised THEN <<n>>
          ELSE <<n>> \o CalledInOrder(Tail(order), d, pkt)

StreamFrames ==
  {RawGarbage,
   RawOf(Mgmt("Dot11Deauth", 12, "aa:01", <<>>)),
   RawOf(Sighting("Dot11Beacon", "aa:01", Cafe, 1, FALSE)),
   RawOf(ProbeReq("cc:01", Cafe))}

\* The analyzers handed to run_analyzers_over_stream, in list order.
StreamAnalyzers == <<"WeakSecurity", "Faulty", "ProbePrivacy">>

InitStream ==
  /\ JobIdle
  /\ pc = "stream"
  /\ selected = StreamAnalyzers
  /\ \E mode \in {"never", "on_packet", "finalize"} :
       det = [n \in Range(StreamAnalyzers) |->
                IF n = "Faulty" THEN FaultyInit(mode) ELSE NewAnalyzer(n)]
  /\ capture = <<>> /\ idx = 0 /\ stats = BasicStatsInit /\ profile = NoProfile
  /\ ret = <<>> /\ clock = 0 /\ WPA_key = TRUE /\ log = <<>>
  /\ FnIdle

\* One iteration of the loop of run_analyzers_over_stream.
StreamFrame ==
  /\ pc = "stream"
  /\ idx < MaxDetFrames
  /\ \E raw \in StreamFrames :
       LET pkt == safe_dot11_decode(raw)
       IN /\ idx' = idx + 1
          /\ capture' = Append(capture, raw)
          /\ IF pkt = NonePkt \/ ~haslayer(pkt, "Dot11")
               THEN UNCHANGED <<pc, det, log>>
             ELSE LET fed == OnPacketInOrder(selected, det, pkt, clock)
                  IN /\ det' = fed.det
                     /\ log' = Append(log, [ts |-> clock, pkt |-> pkt,
                                             to |-> CalledInOrder(selected, det, pkt)])
                     /\ pc' = IF fed.raised THEN "raised" ELSE pc
  /\ UNCHANGED <<fnVars, jobVars, stats, profile, selected, ret, clock, WPA_key>>

\* The stream is exhausted: the results are collected.
StreamCollect ==
  /\ pc = "stream"
  /\ LET got == FinalizeInOrder(selected, det, <<>>)
     IN IF got.raised THEN pc' = "raised" /\ ret' = ret
        ELSE pc' = "done" /\ ret' = got.out
  /\ UNCHANGED <<fnVars, jobVars, runVars, det, clock, WPA_key, log>>

NextStream == StreamFrame \/ StreamCollect

SpecStream == InitStream /\ [][NextStream]_vars

\* The frames of the stream that hold an 802.11 header, decoded.
StreamDot11 ==
  LET dec == [i \in 1..Len(capture) |-> safe_dot11_decode(capture[i])]
      kept == SelectSeq(dec, LAMBDA pkt : haslayer(pkt, "Dot11"))
  IN [i \in 1..Len(kept) |-> [ts |-> 0, pkt |-> kept[i]]]

\* Whether the faulty analyzer raises on this stream.
FaultyRaises ==
  \/ det["Faulty"].mode = "finalize"
  \/ /\ det["Faulty"].mode = "on_packet"
     /\ \E i \in 1..Len(StreamDot11) : haslayer(StreamDot11[i].pkt, "Dot11Deauth")

\* C15: a fault inside one analyzer is isolated.  The run never ends on the
\* exception of an analyzer; when it is done, every analyzer that did not
\* raise has received every frame of the stream that holds an 802.11 header
\* and has its result in the output, and only the analyzer that raised has
\* none.
C15_DetectorFaultIsolated ==
  /\ pc # "raised"
  /\ pc = "done" =>
       /\ \A n \in {"WeakSecurity", "ProbePrivacy"} :
            /\ n \in DOMAIN ret
            /\ ret[n] = finalize(n, Twin(n, NewAnalyzer(n), StreamDot11)).ret
       /\ "Faulty" \notin DOMAIN ret <=> FaultyRaises

\* C23: in the one traversal of the stream, the frames handed to the
\* analyzers are exactly the frames that decode and hold an 802.11 header, in
\* capture order, and each of them is handed once to every analyzer of the
\* list, whatever another analyzer did with it.
C23_EveryFrameToEveryDetector ==
  /\ [k \in 1..Len(log) |-> log[k].pkt] = [k \in 1..Len(StreamDot11) |-> StreamDot11[k].pkt]
  /\ \A k \in 1..Len(log) : log[k].to = selected

\* ------------------------------------------------- the deep dives
\* _get_basic_stats_and_frame_mix(path) over a whole file: the locals after
\* the last frame.
RECURSIVE BasicStatsOver(_, _)
BasicStatsOver(st, frames) ==
  IF frames = <<>> THEN st
  ELSE BasicStatsOver(BasicStatsFrame(st, safe_dot11_decode(Head(frames))), Tail(frames))

\* C38: the passes of one run agree: a deep dive that ran counted as many
\* frames as pass 1 (total_processed = total_packets), the access-point deep
\* dive as many beacons and the association deep dive as many association
\* requests as the frame mix of pass 1 holds, and the access-point deep dive
\* found no more access points than pass 1.
C38_PassesAgree ==
  pc = "done" =>
    /\ output.access_point_analysis # AbsentSection =>
         /\ output.access_point_analysis.beacon_count = Get(output.frame_mix, "beacon", 0)
         /\ output.access_point_analysis.total_processed = output.total_packets
         /\ output.access_point_analysis.unique_aps <= output.unique_aps
    /\ output.association_analysis # AbsentSection =>
         /\ output.association_analysis.assoc_req_count =
              Get(output.frame_mix, "assoc_req", 0)
         /\ output.association_analysis.total_processed = output.total_packets

\* A capture of a beacon, an association request and bytes that do not
\* decode: both deep dives ran and counted 3 frames.
C38_Witness ==
  /\ pc = "done"
  /\ output.total_packets = 3
  /\ \E i \in 1..3 : capture[i] = RawGarbage
  /\ output.access_point_analysis # AbsentSection
  /\ output.association_analysis # AbsentSection
  /\ output.access_point_analysis.beacon_count = 1
  /\ output.access_point_analysis.unique_aps = 1
  /\ output.association_analysis.assoc_req_count = 1

\* C16: a fault inside a deep-dive builder is isolated.  The run never ends
\* on the exception of a builder; in its result the section of a builder that
\* raised is absent, and the totals, the frame mix, the traffic profile, the
\* analyzers' results and the other section are what the capture alone
\* determines, fault or no fault.
C16_DeepDiveFaultIsolated ==
  /\ pc # "aborted"
  /\ pc = "done" =>
       LET basic == BasicStatsResult(BasicStatsOver(BasicStatsInit, capture))
       IN /\ output.association_analysis =
               (IF CountCategory("assoc_req") > 0 /\ "association" \notin input.unreadable
                  THEN [total_processed |-> Len(capture),
                        assoc_req_count |-> CountCategory("assoc_req")]
                ELSE AbsentSection)
          /\ output.access_point_analysis =
               (IF CountCategory("beacon") > 0 /\ "access_points" \notin input.unreadable
                  THEN [AccessPointsResult(capture) EXCEPT
                          !.total_processed = Len(capture),
                          !.beacon_count = CountCategory("beacon")]
                ELSE AbsentSection)
          /\ output.total_packets = basic.total_packets
          /\ output.unique_devices = basic.unique_devices
          /\ output.frame_mix = basic.frame_mix
          /\ output.traffic_profile =
               analyze_traffic_profile(basic.frame_mix, basic.total_packets)
          /\ DOMAIN output.details = Range(output.selected_analyzers)
          /\ \A n \in DOMAIN output.details :
               output.details[n] = finalize(n, Twin(n, NewAnalyzer(n), log)).ret

\* The association builder raised on a capture with an association request
\* and a beacon: its section is absent, the access-point section is there.
C16_Witness ==
  /\ pc = "done"
  /\ input.unreadable = {"association"}
  /\ CountCategory("assoc_req") > 0
  /\ output.association_analysis = AbsentSection
  /\ output.access_point_analysis # AbsentSection

\* ------------------------------------------------- cancellation
\* A run that its caller may cancel (or whose time may run out).  The arguments
\* of smart_analyze_pcap carry nothing for it, and no loop of the engine tests
\* anything but its reader: input.cancelled_at and input.cancelled_in only
\* remember when the trigger came.
InitCancel ==
  /\ JobIdle
  /\ pc = "pass1"
  /\ \E n \in 0..MaxCapture : capture \in [1..n -> RunFrames]
  /\ input = [auto_select_analyzers |-> TRUE, unreadable |-> {},
              cancelled_at |-> NoneInt, cancelled_in |-> None]
  /\ output = None
  /\ idx = 0 /\ stats = BasicStatsInit /\ profile = NoProfile /\ selected = <<>>
  /\ det = <<>> /\ ret = <<>> /\ clock = 0 /\ log = <<>>
  /\ WPA_key = TRUE

\* The trigger comes while a pass has read idx frames and has frames left.
Cancel ==
  /\ pc \in {"pass1", "pass2"}
  /\ idx < Len(capture)
  /\ input.cancelled_at = NoneInt
  /\ input' = [input EXCEPT !.cancelled_at = idx, !.cancelled_in = pc]
  /\ UNCHANGED <<output, pc, runVars, detVars, jobVars>>

NextCancel == NextRun \/ Cancel

SpecCancel == InitCancel /\ [][NextCancel]_vars

\* C17: once cancellation or timeout has triggered, the pass it came in
\* consumes at most the frame in progress, no later pass consumes any, and the
\* run returns a result tagged truncated: never an untagged one, never none.
C17_CancelTruncates ==
  input.cancelled_at # NoneInt =>
    /\ pc = input.cancelled_in => idx <= input.cancelled_at + 1
    /\ (input.cancelled_in = "pass1" /\ pc = "pass2") => idx = 0
    /\ pc # "aborted"
    /\ pc = "done" => ("truncated" \in DOMAIN output /\ output.truncated = TRUE)

\* ------------------------------------------------- two runs in a row
\* The frames of the captures of two runs in a row.
RepeatFrames ==
  {RawOf(EapolKey("cc:01", "aa:01", 128, 1)),
   RawOf(Mgmt("Dot11Deauth", 12, "aa:01", <<>>))}

\* The profile results the analyzers of such a run are selected from.
RepeatProfiles ==
  {[profile |-> p, analyzer_suggestions |-> _suggest_analyzers(p),
    security_indicators |-> <<>>] : p \in {"client_activity", "deauth_attack"}}

\* The first call: a profile result is about to be handed to
\* _select_analyzers_from_profile and the analyzers to
\* _run_selected_analyzers.  output will hold what the first call returned.
InitRepeat ==
  /\ JobIdle
  /\ pc = "phase3"
  /\ \E n \in 0..MaxRunLen : capture \in [1..n -> RepeatFrames]
  /\ profile \in RepeatProfiles
  /\ input = [run |-> 1]
  /\ output = None
  /\ idx = 0 /\ stats = BasicStatsInit /\ selected = <<>>
  /\ det = <<>> /\ ret = <<>> /\ clock = 0 /\ log = <<>>
  /\ WPA_key = TRUE

\* selected_analyzers = _select_analyzers_from_profile(profile_analysis)
SelectAndInstantiate ==
  /\ pc = "phase3"
  /\ selected' = _select_analyzers_from_profile(profile)
  /\ det' = Instantiate(det, Range(selected'))
  /\ idx' = 0
  /\ pc' = "pass2"
  /\ UNCHANGED <<fnVars, jobVars, capture, stats, profile, ret, clock, WPA_key, log>>

\* The second call, in the same process: the caller keeps the first result;
\* whatever the first call left in memory (det) is still there.
RunAgain ==
  /\ pc = "phase4"
  /\ input.run = 1
  /\ input' = [run |-> 2]
  /\ output' = [capture |-> capture, profile |-> profile, log |-> log, details |-> ret]
  /\ \E n \in 0..MaxRunLen : capture' \in [1..n -> RepeatFrames]
  /\ profile' \in RepeatProfiles
  /\ pc' = "phase3"
  /\ idx' = 0 /\ selected' = <<>> /\ ret' = <<>> /\ clock' = 0 /\ log' = <<>>
  /\ UNCHANGED <<stats, det, WPA_key, jobVars>>

NextRepeat == SelectAndInstantiate \/ RunPass2Frame \/ RunFinalize \/ RunAgain

SpecRepeat == InitRepeat /\ [][NextRepeat]_vars

\* C18: no state crosses invocations.  The results of a run, the second of
\* two included, are those of analyzers that were new when the run began and
\* saw the frames of this run only; and a second run over the same capture,
\* with the same selection and the same clock readings, returns what the
\* first returned.
C18_NoStateCrossesRuns ==
  pc = "phase4" =>
    /\ DOMAIN ret = Range(selected)
    /\ \A n \in DOMAIN ret : ret[n] = finalize(n, Twin(n, NewAnalyzer(n), log)).ret
    /\ (input.run = 2 /\ output.capture = capture /\ output.profile = profile
        /\ output.log = log) => ret = output.details

\* Both runs selected HandshakePMKID and read the same key frame, and the
\* second run recorded the handshake the first had recorded.
C18_Witness ==
  /\ pc = "phase4"
  /\ input.run = 2
  /\ "HandshakePMKID" \in DOMAIN ret
  /\ "HandshakePMKID" \in DOMAIN output.details
  /\ Len(output.details["HandshakePMKID"].handshakes) = 1
  /\ Len(ret["HandshakePMKID"].handshakes) = 1

\* ------------------------------------------------- the job layer
\* api/routers/pcap.py: start_analysis is a synchronous endpoint, which the
\* framework runs on a worker thread per request, and _run_analysis is a
\* background task.  Each is cut where it commits: what lies between two
\* commits of one thread is one step, and other threads run in between.
JobFrames ==
  {RawOf(Mgmt("Dot11Deauth", 12, "aa:01", <<>>)),
   RawOf(Sighting("Dot11Beacon", "aa:01", Cafe, 1, FALSE))}

\* The analyzers of analyze_pcap, in list order; under a fault plan a detector
\* that raises stands among them.
JobAnalyzers(mode) ==
  IF mode = "never"
    THEN <<"DeauthDisassoc", "EvilTwinHeuristic", "ProbePrivacy", "WeakSecurity">>
  ELSE <<"DeauthDisassoc", "EvilTwinHeuristic", "Faulty", "ProbePrivacy", "WeakSecurity">>

JobInstances(mode) ==
  [n \in Range(JobAnalyzers(mode)) |->
     IF n = "Faulty" THEN FaultyInit(mode)
     ELSE IF n = "DeauthDisassoc" THEN DeauthDisassocInit(10, 40)
     ELSE NewAnalyzer(n)]

\* The exception RawPcapReader(path) raises, and the one of a detector.
ReaderError == [kind |-> "Raised", exc |-> "RawPcapReader"]
AnalyzerError == [kind |-> "Raised", exc |-> "Analyzer"]

\* The loop of analyze_pcap over the frames of the file.
RECURSIVE FeedFile(_, _, _)
FeedFile(frames, order, d) ==
  IF frames = <<>> THEN [det |-> d, raised |-> FALSE]
  ELSE LET pkt == safe_dot11_decode(Head(frames))
       IN IF pkt = NonePkt \/ ~haslayer(pkt, "Dot11")
            THEN FeedFile(Tail(frames), order, d)
          ELSE LET fed == OnPacketInOrder(order, d, pkt, 0)
               IN IF fed.raised THEN [det |-> d, raised |-> TRUE]
                  ELSE FeedFile(Tail(frames), order, fed.det)

\* analyze_pcap(path): what it returns, or the exception that leaves it.
analyze_pcap(readable, frames, mode) ==
  IF ~readable THEN ReaderError
  ELSE LET fed == FeedFile(frames, JobAnalyzers(mode), JobInstances(mode))
       IN IF fed.raised THEN AnalyzerError
          ELSE LET got == FinalizeInOrder(JobAnalyzers(mode), fed.det, <<>>)
               IN IF got.raised THEN AnalyzerError
                  ELSE [kind |-> "result", total_packets |-> Len(frames),
                        details |-> got.out]

\* PcapAnalysis(pcap_id=pcap.id, status="pending", started_at=...)
NewPcapAnalysis ==
  [status |-> "pending", error |-> None, completed_at |-> None,
   total_packets |-> 0, details |-> NoneDict]

Active(row) == row.status \in {"pending", "running"}

\* The capture record exists.  The file behind it may be unreadable, and one
\* of the detectors may be faulty.
InitJob ==
  /\ pc = "job"
  /\ input \in [readable : BOOLEAN, mode : {"never", "on_packet", "finalize"},
                pcap : {TRUE}]
  /\ \E n \in 0..MaxJobLen : capture \in [1..n -> JobFrames]
  /\ output = None
  /\ idx = 0 /\ stats = BasicStatsInit /\ profile = NoProfile /\ selected = <<>>
  /\ DetIdle
  /\ JobIdle

\* db.get(PcapFile, ...) finds nothing from now on: the record of the capture
\* was removed from the database behind the job layer.
pcap_removed ==
  /\ pc = "job"
  /\ input.pcap
  /\ input' = [input EXCEPT !.pcap = FALSE]
  /\ UNCHANGED <<output, pc, runVars, detVars, jobVars>>

\* start_analysis up to the query for the latest analysis of the capture;
\* all of it when the capture record is missing (404).
start_analysis_query ==
  /\ Len(requests) < MaxRequests
  /\ LET n == Len(pcap_analyses)
         latest == IF n = 0 THEN [id |-> 0, status |-> None]
                   ELSE [id |-> n, status |-> pcap_analyses[n].status]
     IN requests' =
          IF ~input.pcap
            THEN Append(requests, [pc |-> "returned", latest |-> [id |-> 0, status |-> None],
                                   response |-> [analysis_id |-> 0, status |-> "404",
                                                 message |-> "pcap not found"]])
          ELSE Append(requests, [pc |-> "queried", latest |-> latest,
                                 response |-> None])
  /\ UNCHANGED <<fnVars, pc, runVars, detVars, pcap_analyses, tasks, redis>>

\* The rest of start_analysis: the answer "Already in progress", or a new
\* record, committed, and its background task.
start_analysis_commit(r) ==
  /\ requests[r].pc = "queried"
  /\ LET latest == requests[r].latest
     IN IF latest.status \in {"pending", "running"}
          THEN /\ requests' = [requests EXCEPT ![r].pc = "returned",
                                 ![r].response = [analysis_id |-> latest.id,
                                                  status |-> latest.status,
                                                  message |-> "Already in progress"]]
               /\ UNCHANGED <<pcap_analyses, tasks>>
        ELSE /\ pcap_analyses' = Append(pcap_analyses, NewPcapAnalysis)
             /\ tasks' = Append(tasks, "queued")
             /\ requests' = [requests EXCEPT ![r].pc = "returned",
                               ![r].response = [analysis_id |-> Len(pcap_analyses) + 1,
                                                status |-> "queued",
                                                message |-> None]]
  /\ UNCHANGED <<fnVars, pc, runVars, detVars, redis>>

_run_analysis_begin_unmarked(id) ==
  /\ tasks[id] = "queued"
  /\ tasks' = [tasks EXCEPT ![id] = "running"]
  /\ UNCHANGED <<fnVars, pc, runVars, detVars, requests, pcap_analyses, redis>>

\* _run_analysis up to its first commit: the record is marked running; or,
\* the capture record missing, it is marked error and the task is over.
_run_analysis_begin(id) ==
  /\ tasks[id] = "queued"
  /\ IF ~input.pcap
       THEN /\ tasks' = [tasks EXCEPT ![id] = "finished"]
            /\ pcap_analyses' = [pcap_analyses EXCEPT ![id].status = "error",
                                                      ![id].error = "pcap missing",
                                                      ![id].completed_at = "set"]
     ELSE /\ tasks' = [tasks EXCEPT ![id] = "running"]
          /\ pcap_analyses' = [pcap_analyses EXCEPT ![id].status = "running",
                                                    ![id].error = None]
  /\ UNCHANGED <<fnVars, pc, runVars, detVars, requests, redis>>

\* The details column is JSONB (models/pcap.py, line 33), and PostgreSQL's
\* jsonb takes no string holding the character U+0000.  Of the four analyzers
\* of analyze_pcap only WeakSecurity stores a name with that character kept:
\* it decodes the SSID with errors="ignore", which drops invalid bytes only,
\* while EvilTwinHeuristic and ProbePrivacy go through _ascii_printable.
HasNul(s) == \E i \in 1..Len(s) : s[i] = 0

JsonbAccepts(details) ==
  "WeakSecurity" \in DOMAIN details =>
     \A i \in 1..Len(details["WeakSecurity"].aps) :
        ~HasNul(details["WeakSecurity"].aps[i].ssid)

\* The rest of _run_analysis: analyze_pcap, then the result stored with
\* status ok, or the exception stored with status error.  When the last
\* commit of the try block raises, the flush has failed and the session has
\* not been rolled back: the handler's db.get raises in turn, `except
\* Exception: pass` swallows that, and the record keeps what the first
\* commit stored.
_run_analysis_end(id) ==
  /\ tasks[id] = "running"
  /\ tasks' = [tasks EXCEPT ![id] = "finished"]
  /\ LET result == analyze_pcap(input.readable, capture, input.mode)
     IN pcap_analyses' =
          [pcap_analyses EXCEPT ![id] =
             IF result.kind = "Raised"
               THEN [@ EXCEPT !.status = "error", !.error = result.exc,
                              !.completed_at = "set"]
             ELSE IF ~JsonbAccepts(result.details) THEN @
             ELSE [@ EXCEPT !.status = "ok", !.total_packets = result.total_packets,
                            !.details = result.details, !.completed_at = "set"]]
  /\ UNCHANGED <<fnVars, pc, runVars, detVars, requests, redis>>

NextJob ==
  \/ pcap_removed
  \/ start_analysis_query
  \/ \E r \in DOMAIN requests : start_analysis_commit(r)
  \/ \E id \in DOMAIN tasks : _run_analysis_begin(id)
  \/ \E id \in DOMAIN tasks : _run_analysis_end(id)

SpecJob == InitJob /\ [][NextJob]_vars

C20_OneExecutionPerCapture ==
  /\ Cardinality({id \in DOMAIN pcap_analyses : Active(pcap_analyses[id])}) <= 1
  /\ \A r \in DOMAIN requests :
       (requests[r].pc = "returned" /\ Active(requests[r].latest)) =>
          /\ requests[r].response.analysis_id = requests[r].latest.id
          /\ requests[r].response.message = "Already in progress"
  /\ Len(pcap_analyses) =
       Cardinality({r \in DOMAIN requests :
                      /\ requests[r].pc = "returned"
                      /\ requests[r].response.status # "404"
                      /\ ~Active(requests[r].latest)})

\* C21: the status of an analysis record moves only from pending to running
\* and from running to ok or error, or from pending to error when the
\* capture record is missing; a record that is ok or error keeps its status;
\* and a record that is ok or error has completed_at set.
C21_StatusTransitions ==
  [][\A id \in DOMAIN pcap_analyses :
       LET old == pcap_analyses[id].status
           new == pcap_analyses'[id].status
       IN /\ \/ new = old
             \/ old = "pending" /\ new = "running"
             \/ old = "running" /\ new \in {"ok", "error"}
             \/ old = "pending" /\ new = "error" /\ ~input.pcap
          /\ new \in {"ok", "error"} => pcap_analyses'[id].completed_at # None]_vars

\* One record went through running to ok, then the capture record was
\* removed and a later record went from pending to error.
C21_Witness ==
  \E a, b \in DOMAIN pcap_analyses :
    /\ pcap_analyses[a].status = "ok" /\ pcap_analyses[a].completed_at = "set"
    /\ pcap_analyses[b].status = "error" /\ pcap_analyses[b].error = "pcap missing"

\* ---- termination of the background task
\* A beacon of a hidden network: the name is sent as NUL bytes of its length.
NulName == <<0, 0, 0, 0>>

FairJobFrames ==
  JobFrames \cup {RawOf(Sighting("Dot11Beacon", "aa:02", NulName, 1, FALSE))}

InitJobFair ==
  /\ pc = "job"
  /\ input \in [readable : BOOLEAN, mode : {"never", "on_packet", "finalize"},
                pcap : {TRUE}]
  /\ \E n \in 0..MaxJobLen : capture \in [1..n -> FairJobFrames]
  /\ output = None
  /\ idx = 0 /\ stats = BasicStatsInit /\ profile = NoProfile /\ selected = <<>>
  /\ DetIdle
  /\ JobIdle

\* bg.add_task(_run_analysis, analysis.id): the framework runs every task it
\* was given once the response is sent, and analyze_pcap returns or raises,
\* so a step of a task that can be taken is taken in the end.  Every step of
\* a task changes `tasks`, and TaskEnds is what _run_analysis_end does to
\* `tasks`: no other step of NextJob takes a running task to finished, and
\* both are enabled exactly when a task is running.
TaskEnds ==
  \E id \in DOMAIN tasks :
    tasks[id] = "running" /\ tasks' = [tasks EXCEPT ![id] = "finished"]

SpecJobFair ==
  /\ InitJobFair
  /\ [][NextJob]_vars
  /\ WF_tasks(\E id \in DOMAIN tasks : _run_analysis_begin(id))
  /\ WF_tasks(TaskEnds)

\* C40: every analysis record created by start_analysis eventually has
\* status ok or error, its task being scheduled and analyze_pcap returning
\* or raising: no record stays pending or running for ever.
C40_EveryAnalysisFinishes ==
  \A id \in 1..MaxRequests :
    (id \in DOMAIN pcap_analyses) ~>
       (id \in DOMAIN pcap_analyses /\ ~Active(pcap_analyses[id]))

\* ------------------------------------------------- the OTP rate limit
\* request_otp passes limit=5, window_minutes=60 to check_rate_limit.
otp_rate_limit_count == 5
otp_rate_limit_window_minutes == 60

rate_limit_key == "rate_limit:otp:email"

\* GET key: the value, or None once the key is gone.
RedisGet(key) == IF key \in DOMAIN redis THEN redis[key].value ELSE NoneInt

\* SETEX key ttl value: the key expires ttl minutes from now.
RedisSetex(key, ttl, value) ==
  [k \in DOMAIN redis \cup {key} |->
     IF k = key THEN [value |-> value, expire_at |-> clock + ttl] ELSE redis[k]]

\* INCR key: a key that exists keeps its expiry; a key that does not is
\* created with value 1 and no expiry.
RedisIncr(key) ==
  [k \in DOMAIN redis \cup {key} |->
     IF k # key THEN redis[k]
     ELSE IF key \in DOMAIN redis THEN [redis[key] EXCEPT !.value = @ + 1]
     ELSE [value |-> 1, expire_at |-> NoneInt]]

\* No key, no call.  The endpoint is a coroutine of one event loop and
\* check_rate_limit awaits nothing: calls do not interleave with each other,
\* only with the clock of the server.
InitOtp ==
  /\ pc = "otp"
  /\ FnIdle /\ RunIdle /\ DetIdle
  /\ JobIdle

\* check_rate_limit up to current = self.redis_client.get(key).
check_rate_limit_get ==
  /\ pc = "otp"
  /\ Len(requests) < MaxOtpCalls
  /\ \A r \in DOMAIN requests : requests[r].pc = "returned"
  /\ requests' = Append(requests, [pc |-> "got", current |-> RedisGet(rate_limit_key),
                                   got_at |-> clock, at |-> NoneInt,
                                   is_allowed |-> FALSE])
  /\ UNCHANGED <<fnVars, pc, runVars, detVars, pcap_analyses, tasks, redis>>

\* The rest of check_rate_limit, and of request_otp up to the 429.
check_rate_limit_update(r) ==
  /\ requests[r].pc = "got"
  /\ LET current == requests[r].current
     IN IF current = NoneInt
          THEN /\ redis' = RedisSetex(rate_limit_key, otp_rate_limit_window_minutes, 1)
               /\ requests' = [requests EXCEPT ![r].pc = "returned", ![r].at = clock,
                                               ![r].is_allowed = TRUE]
        ELSE IF current >= otp_rate_limit_count
          THEN /\ redis' = redis
               /\ requests' = [requests EXCEPT ![r].pc = "returned", ![r].at = clock]
        ELSE /\ redis' = RedisIncr(rate_limit_key)
             /\ requests' = [requests EXCEPT ![r].pc = "returned", ![r].at = clock,
                                             ![r].is_allowed = TRUE]
  /\ UNCHANGED <<fnVars, pc, runVars, detVars, pcap_analyses, tasks>>

\* Time passes on the server: the keys whose expiry time has come are gone.
RedisTick ==
  /\ pc = "otp"
  /\ clock + TickMinutes <= MaxOtpClock
  /\ clock' = clock + TickMinutes
  /\ redis' = [k \in {j \in DOMAIN redis : redis[j].expire_at = NoneInt
                                           \/ redis[j].expire_at > clock'} |-> redis[k]]
  /\ UNCHANGED <<fnVars, pc, runVars, det, ret, WPA_key, log, pcap_analyses, requests, tasks>>

NextOtp ==
  \/ check_rate_limit_get
  \/ \E r \in DOMAIN requests : check_rate_limit_update(r)
  \/ RedisTick

SpecOtp == InitOtp /\ [][NextOtp]_vars

\* The calls answered, and those that passed the check, at times in [from, to).
Passed(from, to) ==
  {r \in DOMAIN requests : /\ requests[r].pc = "returned" /\ requests[r].is_allowed
                           /\ from <= requests[r].at /\ requests[r].at < to}

\* C22: at most 5 calls pass within the 60 minutes that follow a call that
\* found no counter (the first of its window), and a call is rejected only
\* inside such a window that is full: a rejected call has 5 passed calls in
\* the 60 minutes that end when it read the counter, so requests are allowed
\* again once the window has expired.
C22_OtpRateLimit ==
  \A r \in DOMAIN requests :
    requests[r].pc = "returned" =>
      /\ (requests[r].is_allowed /\ requests[r].current = NoneInt) =>
            Cardinality(Passed(requests[r].at,
                               requests[r].at + otp_rate_limit_window_minutes))
              <= otp_rate_limit_count
      /\ ~requests[r].is_allowed =>
            Cardinality(Passed(requests[r].got_at - otp_rate_limit_window_minutes + 1,
                               requests[r].got_at + 1))
              >= otp_rate_limit_count

\* ------------------------------------------------- WeakSecurity
\* Beacons of two access points, open and with an RSN element, under two
\* names, one address also in upper case; and a probe response.
WeakFrames ==
  {Sighting("Dot11Beacon", "aa:01", Cafe, 1, FALSE),
   Sighting("Dot11Beacon", "aa:01", <<66>>, 1, TRUE),
   Sighting("Dot11Beacon", "AA:01", Cafe, 1, TRUE),
   Sighting("Dot11Beacon", "aa:02", Cafe, 1, FALSE),
   Sighting("Dot11Beacon", "aa:02", <<66>>, 1, TRUE),
   Sighting("Dot11ProbeResp", "aa:03", Cafe, 1, FALSE)}

InitWeak == InitFeed([n \in {"WeakSecurity"} |-> WeakSecurityInit], {TRUE})

NextWeak == Feed(WeakFrames, {0}, MaxWeakFrames) \/ FinalizeAll

SpecWeak == InitWeak /\ [][NextWeak]_vars

\* The positions in the log of the beacons of a BSSID.
BeaconsOf(bssid) ==
  {i \in 1..Len(log) : haslayer(log[i].pkt, "Dot11Beacon") /\ Lower(log[i].pkt.addr2) = bssid}

\* The name and the class a beacon carries.
BeaconName(pkt) == (CHOOSE e \in Range(pkt.elts) : e.ID = 0).info
BeaconOpen(pkt) == \A e \in Range(pkt.elts) : e.ID # 48

\* C27: the result of WeakSecurity has one entry per BSSID that sent a
\* beacon and no other; the entry carries the name and the security class of
\* the last beacon of that BSSID; and the BSSID is in weak_aps exactly when
\* that last beacon is of the open class.
C27_LatestBeaconWins ==
  LET r == WeakSecurity_finalize(det["WeakSecurity"]).ret
      bssids == {Lower(log[i].pkt.addr2) :
                   i \in {j \in 1..Len(log) : haslayer(log[j].pkt, "Dot11Beacon")}}
      Last(b) == log[CHOOSE i \in BeaconsOf(b) : \A j \in BeaconsOf(b) : j <= i].pkt
  IN /\ {r.aps[k].bssid : k \in 1..Len(r.aps)} = bssids
     /\ Len(r.aps) = Cardinality(bssids)
     /\ \A k \in 1..Len(r.aps) :
          /\ r.aps[k].ssid = BeaconName(Last(r.aps[k].bssid))
          /\ r.aps[k].security = (IF BeaconOpen(Last(r.aps[k].bssid)) THEN "Open"
                                  ELSE "WPA2/3")
     /\ \A b \in bssids :
          (\E k \in 1..Len(r.weak_aps) : r.weak_aps[k].bssid = b) <=> BeaconOpen(Last(b))
     /\ \A k \in 1..Len(r.weak_aps) : r.weak_aps[k] \in Range(r.aps)
     /\ pc = "done" => ret["WeakSecurity"] = r

\* One access point was open and its last beacon is not, another was not
\* open and its last beacon is: finalize reports the second only.
C27_Witness ==
  /\ pc = "done"
  /\ Len(log) = 4
  /\ BeaconOpen(log[1].pkt) /\ Lower(log[1].pkt.addr2) = "aa:01"
  /\ ~BeaconOpen(log[2].pkt) /\ Lower(log[2].pkt.addr2) = "aa:01"
  /\ ~BeaconOpen(log[3].pkt) /\ Lower(log[3].pkt.addr2) = "aa:02"
  /\ BeaconOpen(log[4].pkt) /\ Lower(log[4].pkt.addr2) = "aa:02"
  /\ Len(ret["WeakSecurity"].aps) = 2
  /\ Len(ret["WeakSecurity"].weak_aps) = 1
  /\ ret["WeakSecurity"].weak_aps[1].bssid = "aa:02"

\* ------------------------------------------------- HandshakePMKID
\* Key frames of one exchange: message 1 under two replay counters and from
\* the address in upper case, message 2, a frame with the bits of message 4,
\* an EAPOL frame with no key layer; and a beacon.
HandshakeFrames ==
  {EapolKey("cc:01", "aa:01", 138, 1),
   EapolKey("cc:01", "aa:01", 138, 2),
   EapolKey("cc:01", "AA:01", 138, 1),
   EapolKey("aa:01", "cc:01", 266, 1),
   EapolKey("aa:01", "cc:01", 778, 2),
   Dot11Pkt({"Dot11QoS", "EAPOL"}, 2, 8, "cc:01", "aa:01", "aa:01", <<>>),
   Sighting("Dot11Beacon", "aa:01", Cafe, 1, FALSE)}

InitHandshake == InitFeed([n \in {"HandshakePMKID"} |-> HandshakePMKIDInit], BOOLEAN)

NextHandshake == Feed(HandshakeFrames, {0}, MaxHandshakeFrames) \/ FinalizeAll

SpecHandshake == InitHandshake /\ [][NextHandshake]_vars

\* The tuple the detector dedups a key-exchange frame on, as the entry
\* recorded for it shows it.
ObservedTuple(pkt) ==
  LET parsed == WPA_key /\ haslayer(pkt, "WPA_key")
  IN <<Lower(pkt.addr2), Lower(pkt.addr1),
       IF parsed THEN MessageNumber(pkt.key.key_info) ELSE NoneInt,
       IF parsed THEN Hex(pkt.key.wpa_key_mic) ELSE NoneStr,
       IF parsed THEN pkt.key.replay_counter ELSE NoneInt,
       IF parsed THEN Hex(pkt.key.key_iv) ELSE NoneStr>>

EntryTuple(e) == <<e.bssid, e.sta, e.message, e.mic, e.replay_counter, e.key_iv>>

FirstAt(seq, x) == CHOOSE i \in 1..Len(seq) : seq[i] = x /\ \A j \in 1..(i - 1) : seq[j] # x

\* C28: the handshake list holds no two entries of the same (bssid,
\* station, message, MIC, replay counter, IV) tuple, holds an entry for every
\* tuple observed and for no other, and lists the entries in the order their
\* tuples were first observed; a frame whose tuple is recorded already leaves
\* the list as it is.
C28_HandshakeDedup ==
  [][LET hs == det'["HandshakePMKID"].handshakes
         obs == [k \in 1..Len(log') |-> IF haslayer(log'[k].pkt, "EAPOL")
                                          THEN ObservedTuple(log'[k].pkt) ELSE <<>>]
         seen == {obs[k] : k \in 1..Len(obs)} \ {<<>>}
     IN /\ \A i, j \in 1..Len(hs) : i # j => EntryTuple(hs[i]) # EntryTuple(hs[j])
        /\ {EntryTuple(hs[i]) : i \in 1..Len(hs)} = seen
        /\ \A i, j \in 1..Len(hs) :
             i < j => FirstAt(obs, EntryTuple(hs[i])) < FirstAt(obs, EntryTuple(hs[j]))
        /\ (/\ Len(log') = Len(log) + 1
            /\ \E k \in 1..Len(log) : obs[k] = obs[Len(log')])
           => hs = det["HandshakePMKID"].handshakes]_vars

\* Message 1 was recorded, then message 1 under another replay counter, then
\* the first frame came again, from the address in upper case, and left two
\* entries.
C28_Witness ==
  /\ WPA_key
  /\ Len(log) = 3
  /\ log[1].pkt = EapolKey("cc:01", "aa:01", 138, 1)
  /\ log[2].pkt = EapolKey("cc:01", "aa:01", 138, 2)
  /\ log[3].pkt = EapolKey("cc:01", "AA:01", 138, 1)
  /\ Len(det["HandshakePMKID"].handshakes) = 2
  /\ det["HandshakePMKID"].handshakes[2].replay_counter = 2

\* ------------------------------------------------- message number
\* One key frame of any key_info value, with the key layer of
\* scapy.contrib.wpa_eapol imported or not.
InitKeyInfo ==
  /\ JobIdle
  /\ input \in [key_info : 0..MaxKeyInfo, WPA_key : BOOLEAN]
  /\ output = None
  /\ pc = "infer"
  /\ RunIdle /\ DetIdle

\* HandshakePMKID().on_packet(pkt); finalize()["handshakes"][0]["message"]
InferMessage ==
  /\ pc = "infer"
  /\ output' = HandshakePMKID_finalize(
                 HandshakePMKID_on_packet(HandshakePMKIDInit,
                   EapolKey("cc:01", "aa:01", input.key_info, 1),
                   input.WPA_key)).ret.handshakes[1].message
  /\ pc' = "done"
  /\ UNCHANGED <<input, runVars, detVars, jobVars>>

NextKeyInfo == InferMessage

SpecKeyInfo == InitKeyInfo /\ [][NextKeyInfo]_vars

Bit(n, b) == (n \div (2 ^ b)) % 2 = 1

ApFrames ==
  {RawOf(Sighting("Dot11Beacon", "aa:01", Cafe, 1, FALSE)),
   RawOf(Sighting("Dot11Beacon", "AA:01", Cafe, 6, TRUE)),
   RawDirect(Sighting("Dot11Beacon", "aa:02", Cafe, 1, TRUE)),
   RawOf(Dot11Pkt({"Dot11Beacon"}, 0, 8, Bcast, None, None, <<>>)),
   RawOf(Sighting("Dot11ProbeResp", "aa:01", Cafe, 1, FALSE)),
   RawGarbage}

InitAccessPoints ==
  /\ JobIdle
  /\ pc = "phase5"
  /\ \E n \in 0..MaxApFrames : capture \in [1..n -> ApFrames]
  /\ input = [auto_select_analyzers |-> TRUE, unreadable |-> {}]
  /\ output = None
  /\ idx = 0 /\ stats = BasicStatsInit /\ profile = NoProfile /\ selected = <<>>
  /\ DetIdle

\* ap_analysis = analyze_access_points(path)
AnalyzeAccessPoints ==
  /\ pc = "phase5"
  /\ output' = analyze_access_points
  /\ pc' = "done"
  /\ UNCHANGED <<input, runVars, detVars, jobVars>>

NextAccessPoints == AnalyzeAccessPoints

SpecAccessPoints == InitAccessPoints /\ [][NextAccessPoints]_vars

\* The positions of the beacons in the file, and of those of one BSSID.
BeaconPositions ==
  {i \in 1..Len(capture) : LET pkt == safe_dot11_decode(capture[i])
                           IN haslayer(pkt, "Dot11") /\ haslayer(pkt, "Dot11Beacon")}

BeaconsFrom(b) ==
  {i \in BeaconPositions : LET a == safe_dot11_decode(capture[i]).addr2
                           IN Truthy(a) /\ Lower(a) = b}

\* The index of the beacon at position i in the sequence of beacons.
BeaconIndex(i) == Cardinality({j \in BeaconPositions : j <= i})

Min(S) == CHOOSE x \in S : \A y \in S : x <= y

Max(S) == CHOOSE x \in S : \A y \in S : x >= y

\* C30: after the access-point deep dive there is one record for every BSSID
\* (lower-cased) that sent a beacon and none for any other; its beacon_count
\* is the number of that BSSID's beacons, first_seen and last_seen are the
\* indices of its first and last beacon in the sequence of beacons, and
\* 1 <= first_seen <= last_seen <= the number of beacons.
C30_AccessPointRecords ==
  pc = "done" =>
    LET aps == output.access_points
        senders == {Lower(safe_dot11_decode(capture[i]).addr2) :
                      i \in {j \in BeaconPositions :
                               Truthy(safe_dot11_decode(capture[j]).addr2)}}
    IN /\ {aps[k].key : k \in 1..Len(aps)} = senders
       /\ Len(aps) = Cardinality(senders)
       /\ output.unique_aps = Cardinality(senders)
       /\ output.beacon_count = Cardinality(BeaconPositions)
       /\ \A k \in 1..Len(aps) :
            LET ap == aps[k].val
                mine == BeaconsFrom(aps[k].key)
            IN /\ ap.bssid = aps[k].key
               /\ ap.beacon_count = Cardinality(mine)
               /\ ap.first_seen = BeaconIndex(Min(mine))
               /\ ap.last_seen = BeaconIndex(Max(mine))
               /\ 1 <= ap.first_seen
               /\ ap.first_seen <= ap.last_seen
               /\ ap.last_seen <= output.beacon_count

\* Four beacons: an access point, a second one, a beacon with no address, and
\* the first access point again under its address in upper case; the first
\* record counts 2 beacons, seen first as beacon 1 and last as beacon 4.
C30_Witness ==
  /\ pc = "done"
  /\ Len(capture) = 4
  /\ output.beacon_count = 4
  /\ output.unique_aps = 2
  /\ output.access_points[1].key = "aa:01"
  /\ output.access_points[1].val.beacon_count = 2
  /\ output.access_points[1].val.first_seen = 1
  /\ output.access_points[1].val.last_seen = 4
  /\ output.access_points[2].val.first_seen = 2

\* The security states the beacons of one BSSID advertised.
StatesFrom(b) ==
  {extract_beacon_details(safe_dot11_decode(capture[i])).security : i \in BeaconsFrom(b)}

\* C31: in every record the security states listed are pairwise distinct and
\* are the states the access point advertised, and the access point is
\* reported under "Security changes" exactly when it advertised more than one
\* distinct state.
C31_DistinctSecurityStates ==
  pc = "done" =>
    \A k \in 1..Len(output.access_points) :
      LET ap == output.access_points[k].val
          evolution == ap.security_evolution
          reported == \E j \in 1..Len(output.suspicious_behaviors) :
                        /\ output.suspicious_behaviors[j].ap = ap.bssid
                        /\ output.suspicious_behaviors[j].behavior = "Security changes"
      IN /\ \A i, j \in 1..Len(evolution) : i # j => evolution[i] # evolution[j]
         /\ {evolution[i] : i \in 1..Len(evolution)} = StatesFrom(ap.bssid)
         /\ reported <=> Cardinality(StatesFrom(ap.bssid)) > 1

\* ------------------------------------------------- the security score
\* A packet with the capability field of its beacon layer set.
WithCap(pkt, cap) ==
  [f \in DOMAIN pkt \cup {"cap"} |-> IF f = "cap" THEN cap ELSE pkt[f]]

\* An RSN element (version 1, CCMP group and pairwise cipher) with the AKM
\* suites 00-0f-ac-n for the n given.
RECURSIVE AkmList(_)
AkmList(akms) ==
  IF akms = <<>> THEN <<>> ELSE <<0, 15, 172, Head(akms)>> \o AkmList(Tail(akms))

RsnElt(akms) ==
  Elt(48, <<1, 0, 0, 15, 172, 4, 1, 0, 0, 15, 172, 4, Len(akms), 0>> \o AkmList(akms))

\* The vendor element of WPA (Microsoft OUI, type 1), the VHT capabilities
\* and the HE capabilities element.
WpaElt == Elt(221, <<0, 80, 242, 1, 1, 0>>)

VhtElt == Elt(191, <<0>>)

HeElt == Elt(255, <<35>>)

\* One beacon: the privacy and spectrum-management bits of its capability
\* field set or not, no RSN element or one with the AKM suites PSK (2), 802.1X
\* (1), SAE (8) or 802.1X and SAE, and each of WPA, VHT and HE element there
\* or not.
InitScore ==
  /\ JobIdle
  /\ \E cap \in {0, 16, 256, 272},
        rsn \in {<<>>, <<RsnElt(<<2>>)>>, <<RsnElt(<<1>>)>>, <<RsnElt(<<8>>)>>,
                 <<RsnElt(<<1, 8>>)>>},
        wpa \in {<<>>, <<WpaElt>>}, vht \in {<<>>, <<VhtElt>>}, he \in {<<>>, <<HeElt>>} :
        input = WithCap(Mgmt("Dot11Beacon", 8, "aa:01", <<SsidElt(Cafe)>> \o rsn \o wpa \o vht \o he),
                        cap)
  /\ output = None
  /\ pc = "assess"
  /\ RunIdle /\ DetIdle

\* ap["security_assessment"] = _assess_ap_security(ap["details"])
AssessSecurity ==
  /\ pc = "assess"
  /\ output' = _assess_ap_security(extract_beacon_details(input))
  /\ pc' = "done"
  /\ UNCHANGED <<input, runVars, detVars, jobVars>>

NextScore == AssessSecurity

SpecScore == InitScore /\ [][NextScore]_vars

HasElt(pkt, id) == \E i \in 1..Len(pkt.elts) : pkt.elts[i].ID = id

\* C32: the score of an access point is the base of the strongest protocol
\* present (open 0, WEP 5, WPA 15, WPA2 30, WPA3 40), plus 20 with enterprise
\* authentication, plus 15 with 802.11ax or else 10 with 802.11ac, capped at
\* 100; it lies in 0..100, and an open access point with neither enterprise
\* authentication nor a modern standard scores 0.
C32_SecurityScore ==
  pc = "done" =>
    LET security == extract_beacon_details(input).security
        base == IF "wpa3" \in security THEN 40
                ELSE IF "wpa2" \in security THEN 30
                ELSE IF "wpa" \in security THEN 15
                ELSE IF "wep" \in security THEN 5
                ELSE 0
        sum == base + (IF "enterprise" \in security THEN 20 ELSE 0)
                    + (IF HasElt(input, 255) THEN 15
                       ELSE IF HasElt(input, 191) THEN 10 ELSE 0)
    IN /\ output.overall_score \in 0..100
       /\ output.overall_score = (IF sum < 100 THEN sum ELSE 100)
       /\ (security = {"open"} /\ ~HasElt(input, 255) /\ ~HasElt(input, 191))
            => output.overall_score = 0

\* ------------------------------------------------- the element chain
\* Name elements ("Cafe", "B", the zero-length name and the name "<hidden>"),
\* channel elements and an RSN element.
TagElts ==
  {SsidElt(Cafe), SsidElt(<<66>>), SsidElt(<<>>), SsidElt(HiddenName),
   Elt(3, <<1>>), Elt(3, <<6>>), Elt(48, <<1>>)}

TagBeacon(elts) == Mgmt("Dot11Beacon", 8, "aa:01", elts)

\* One beacon with any chain of up to MaxElts elements.
InitTags ==
  /\ JobIdle
  /\ \E n \in 0..MaxElts : \E elts \in [1..n -> TagElts] : input = TagBeacon(elts)
  /\ output = None
  /\ pc = "read"
  /\ RunIdle /\ DetIdle

\* What the detectors and the access-point deep dive record for one beacon:
\* EvilTwinHeuristic's ssids, WeakSecurity's aps and the beacon details.
Recorded(pkt) ==
  [evil |-> EvilTwinHeuristic_finalize(EvilTwinHeuristic_on_packet(EvilTwinInit, pkt)).ret.ssids,
   weak |-> WeakSecurity_finalize(WeakSecurity_on_packet(WeakSecurityInit, pkt)).ret.aps,
   details |-> extract_beacon_details(pkt)]

ReadTags ==
  /\ pc = "read"
  /\ output' = Recorded(input)
  /\ pc' = "done"
  /\ UNCHANGED <<input, runVars, detVars, jobVars>>

NextTags == ReadTags

SpecTags == InitTags /\ [][NextTags]_vars

\* The chain with every element dropped whose id an earlier element has.
FirstOnly(elts) ==
  LET keep == {i \in 1..Len(elts) : \A j \in 1..(i - 1) : elts[j].ID # elts[i].ID}
      pos(k) == CHOOSE i \in keep : Cardinality({j \in keep : j <= i}) = k
  IN [k \in 1..Cardinality(keep) |-> elts[pos(k)]]

\* C33: of the elements of one id the first decides: what the detectors and
\* the deep dive record for a beacon is what they record for the beacon with
\* only the first element of every id.
C33_FirstOccurrenceWins ==
  pc = "done" => output = Recorded(TagBeacon(FirstOnly(input.elts)))

NameElts(pkt) == SelectSeq(pkt.elts, LAMBDA e : e.ID = 0)

\* C34: the name reported for a beacon whose one name element is zero-length
\* is a sentinel: in the beacon details and in WeakSecurity's entry it is not
\* None (the name of a beacon with no name element), not the empty string, and
\* no value a non-empty name decodes to; EvilTwinHeuristic, which reports no
\* sighting for a beacon with no name element, reports one.
C34_HiddenNameSentinel ==
  (pc = "done" /\ NameElts(input) = <<SsidElt(<<>>)>>) =>
    LET names == {Cafe, <<66>>, HiddenName}
    IN /\ output.details.ssid \notin {NoneStr, <<>>} \cup {DecodeReplace(n) : n \in names}
       /\ output.weak[1].ssid \notin {NoneStr, <<>>} \cup {DecodeIgnore(n) : n \in names}
       /\ output.evil # <<>>

\* ------------------------------------------------- automatic selection
\* The frame mix pass 1 hands to the profiler: that of the empty capture, any
\* mix of up to MaxTotal frames, or a mix of 100 frames counted in steps of 5.
InitAuto ==
  /\ JobIdle
  /\ \/ \E t \in 0..MaxTotal : \E d \in 0..t : \E s \in 0..(t - d) :
          \E b \in 0..(t - d - s) : \E q \in 0..(t - d - s - b) :
            input = Mix(t, d, s, b, q)
     \/ \E d \in 0..20 : \E s \in 0..(20 - d) :
          \E b \in 0..(20 - d - s) : \E q \in 0..(20 - d - s - b) :
            input = Mix(100, 5 * d, 5 * s, 5 * b, 5 * q)
  /\ output = None
  /\ pc = "phase2"
  /\ RunIdle /\ DetIdle

\* profile_analysis = TrafficProfiler.analyze_traffic_profile(frame_mix, total)
\* selected_analyzers = _select_analyzers_from_profile(profile_analysis)
AutoSelect ==
  /\ pc = "phase2"
  /\ LET profile_analysis == analyze_traffic_profile(input.frame_mix, input.total_packets)
     IN output' = [traffic_profile |-> profile_analysis,
                   selected_analyzers |-> _select_analyzers_from_profile(profile_analysis)]
  /\ pc' = "done"
  /\ UNCHANGED <<input, runVars, detVars, jobVars>>

NextAuto == AutoSelect

SpecAuto == InitAuto /\ [][NextAuto]_vars

\* 5 < deauth% <= 10 and disassoc% <= 5
FloodBelowAttack ==
  /\ 100 * CountIn("deauth") > 5 * input.total_packets
  /\ 100 * CountIn("deauth") <= 10 * input.total_packets
  /\ 100 * CountIn("disassoc") <= 5 * input.total_packets

\* C35: in automatic mode DeauthDisassoc is selected exactly when the profile
\* is deauth_attack; a capture with 5 < deauth% <= 10 and disassoc% <= 5 has
\* the deauth_flood indicator of severity high and DeauthDisassoc is not
\* selected; at most two analyzers are selected.
C35_BurstDetectorOnlyOnAttack ==
  pc = "done" =>
    LET names == Range(output.selected_analyzers)
        indicators == Range(output.traffic_profile.security_indicators)
    IN /\ "DeauthDisassoc" \in names <=> output.traffic_profile.profile = "deauth_attack"
       /\ (input.total_packets > 0 /\ FloodBelowAttack) =>
            /\ \E i \in indicators : i.type = "deauth_flood" /\ i.severity = "high"
            /\ "DeauthDisassoc" \notin names
       /\ Len(output.selected_analyzers) <= 2

\* 10 deauthentication and 5 disassociation frames of 100: the indicator is
\* raised and the analyzers of normal_mixed run.
C35_Witness ==
  /\ pc = "done"
  /\ input.total_packets = 100
  /\ CountIn("deauth") = 10
  /\ CountIn("disassoc") = 5
  /\ output.traffic_profile.profile = "normal_mixed"
  /\ output.traffic_profile.security_indicators # <<>>
  /\ output.selected_analyzers = <<"WeakSecurity">>

\* ------------------------------------------------- ProbePrivacy, by prefix
\* Probe requests of one station for the names "A".."F", two names to a frame
\* or one, the wildcard request, and a request of a second station.
PnlFrames ==
  {Mgmt("Dot11ProbeReq", 4, "cc:01", <<SsidElt(<<65>>), SsidElt(<<66>>)>>),
   Mgmt("Dot11ProbeReq", 4, "cc:01", <<SsidElt(<<67>>), SsidElt(<<68>>)>>),
   ProbeReq("cc:01", <<69>>),
   ProbeReq("cc:01", <<70>>),
   ProbeReq("cc:01", <<>>),
   ProbeReq("cc:02", <<65>>)}

InitPnl == InitFeed([n \in {"ProbePrivacy"} |-> ProbePrivacyInit], {TRUE})

NextPnl == Feed(PnlFrames, {0}, MaxPnlFrames) \/ FinalizeAll

SpecPnl == InitPnl /\ [][NextPnl]_vars

\* What finalize returns after the frames fed so far.
PnlReport(d) == ProbePrivacy_finalize(d["ProbePrivacy"]).ret

\* C37: over the stream a station's set of names only grows, a station
\* listed in clients_with_large_pnl stays listed with a count that does not
\* decrease, and no station is listed twice in clients or in
\* clients_with_large_pnl.
C37_PnlMonotonic ==
  [][LET before == PnlReport(det)
         after == PnlReport(det')
     IN /\ \A i \in 1..Len(before.clients) :
             \E j \in 1..Len(after.clients) :
               /\ after.clients[j].sta = before.clients[i].sta
               /\ Range(before.clients[i].pnl) \subseteq Range(after.clients[j].pnl)
        /\ \A i \in 1..Len(before.clients_with_large_pnl) :
             \E j \in 1..Len(after.clients_with_large_pnl) :
               /\ after.clients_with_large_pnl[j].sta = before.clients_with_large_pnl[i].sta
               /\ after.clients_with_large_pnl[j].count >= before.clients_with_large_pnl[i].count
        /\ \A i, j \in 1..Len(after.clients) :
             i # j => after.clients[i].sta # after.clients[j].sta
        /\ \A i, j \in 1..Len(after.clients_with_large_pnl) :
             i # j => after.clients_with_large_pnl[i].sta # after.clients_with_large_pnl[j].sta]_vars

\* The station was listed with 5 names after three frames; a fourth frame
\* brought a sixth name, and the wildcard request after it changed nothing.
C37_Witness ==
  /\ pc = "feed"
  /\ Len(log) = 5
  /\ log[3].pkt = ProbeReq("cc:01", <<69>>)
  /\ log[4].pkt = ProbeReq("cc:01", <<70>>)
  /\ log[5].pkt = ProbeReq("cc:01", <<>>)
  /\ PnlReport(det).clients_with_large_pnl = <<[sta |-> "cc:01", count |-> 6]>>

\* ------------------------------------------------- HandshakePMKID, directions
\* Message 1 from the access point to the station, message 2 from the station
\* to the access point, a key frame with no message number, key frames with no
\* receiver and with no transmitter address, and an EAPOL frame with no key
\* layer.
DirectionFrames ==
  {EapolKey("cc:01", "aa:01", 138, 1),
   EapolKey("aa:01", "cc:01", 266, 1),
   EapolKey("cc:01", "aa:01", 10, 2),
   EapolKey(None, "aa:01", 138, 1),
   EapolKey("cc:01", None, 266, 1),
   Dot11Pkt({"Dot11QoS", "EAPOL"}, 2, 8, "aa:01", "cc:01", "aa:01", <<>>)}

InitDirections == InitFeed([n \in {"HandshakePMKID"} |-> HandshakePMKIDInit], BOOLEAN)

NextDirections == Feed(DirectionFrames, {0}, MaxHandshakeFrames) \/ FinalizeAll

SpecDirections == InitDirections /\ [][NextDirections]_vars

\* A key-exchange frame with both addresses.
Addressed(pkt) == haslayer(pkt, "EAPOL") /\ Truthy(pkt.addr1) /\ Truthy(pkt.addr2)

\* C39: every key-exchange frame with both addresses has an entry with its
\* transmitter address (addr2) as bssid and its receiver address (addr1) as
\* sta, whatever message number was inferred; every entry comes from such a
\* frame; a frame with an address missing adds no entry.
C39_BssidIsTransmitter ==
  [][LET hs == det'["HandshakePMKID"].handshakes
     IN /\ \A k \in 1..Len(log') :
             Addressed(log'[k].pkt) =>
               \E i \in 1..Len(hs) :
                 /\ hs[i].bssid = Lower(log'[k].pkt.addr2)
                 /\ hs[i].sta = Lower(log'[k].pkt.addr1)
                 /\ hs[i].message = ObservedTuple(log'[k].pkt)[3]
        /\ \A i \in 1..Len(hs) :
             \E k \in 1..Len(log') :
               /\ Addressed(log'[k].pkt)
               /\ hs[i].bssid = Lower(log'[k].pkt.addr2)
               /\ hs[i].sta = Lower(log'[k].pkt.addr1)
        /\ (Len(log') = Len(log) + 1 /\ ~Addressed(log'[Len(log')].pkt))
             => hs = det["HandshakePMKID"].handshakes]_vars

\* Message 1 and message 2 of one exchange were recorded under swapped
\* pairs, and a frame with no receiver address between them added nothing.
C39_Witness ==
  /\ WPA_key
  /\ Len(log) = 3
  /\ log[2].pkt = EapolKey(None, "aa:01", 138, 1)
  /\ Len(det["HandshakePMKID"].handshakes) = 2
  /\ det["HandshakePMKID"].handshakes[1].bssid = "aa:01"
  /\ det["HandshakePMKID"].handshakes[1].sta = "cc:01"
  /\ det["HandshakePMKID"].handshakes[1].message = 1
  /\ det["HandshakePMKID"].handshakes[2].bssid = "cc:01"
  /\ det["HandshakePMKID"].handshakes[2].sta = "aa:01"
  /\ det["HandshakePMKID"].handshakes[2].message = 2

====
